---- MODULE Spec2Model ----
(***************************************************************************)
(* Model of the compiled core of capellambse (rust/src).                   *)
(*                                                                         *)
(* Part 1: rust/src/namespace.rs, the versioned Namespace registry.        *)
(* Part 2: rust/src/parse.rs and rust/src/model.rs, the loader.            *)
(*                                                                         *)
(* Rust `String`/`&str` values are modelled as sequences of one-character  *)
(* strings, so that contains/split/starts_with/ends_with/slicing are       *)
(* computed and not assumed.  `Option<T>` is modelled as a sequence of     *)
(* length 0 (None) or 1 (Some).                                            *)
(***************************************************************************)
EXTENDS Integers, Sequences, FiniteSets, TLC

VARIABLES namespaces, calls, res,
          document, pos, outcome, stack, id_index, corrupt,
          entrypoint, resources, opened, buf,
          dicts, threads, held, made,
          string_cache, arcs, elems, inner, types, relations

\* the Namespace objects, and the result of the last call on one of them
nsvars == <<namespaces, calls, res>>

\* one load: the events the tokenizer has on offer and how many of them were
\* read, the frame stack of parse_from_resources, the id index and the
\* corruption flag of the NativeLoader, and what the load returned
\* the strings, lists and relation descriptors of the object model
mdvars == <<string_cache, arcs, elems, inner, types, relations>>

dtvars == <<dicts, threads, held, made, string_cache, arcs, elems, inner, types, relations>>

opvars ==
    <<entrypoint, resources, opened, buf, dicts, threads, held, made,
      string_cache, arcs, elems, inner, types, relations>>

ldvars ==
    <<document, pos, outcome, stack, id_index, corrupt,
      entrypoint, resources, opened, buf, dicts, threads, held, made,
      string_cache, arcs, elems, inner, types, relations>>

vars ==
    <<namespaces, calls, res, document, pos, outcome, stack, id_index, corrupt,
      entrypoint, resources, opened, buf, dicts, threads, held, made,
      string_cache, arcs, elems, inner, types, relations>>

----------------------------------------------------------------------------
(* Bounds of the model *)

\* number of successful register() calls in one behaviour
MaxRegs == 2
\* version_precision arguments are drawn from 0 .. MaxPrecision
MaxPrecision == 2

----------------------------------------------------------------------------
(* Option<T> *)

None == <<>>
Some(x) == <<x>>
IsSome(o) == o # <<>>
Unwrap(o) == o[1]

----------------------------------------------------------------------------
(* str helpers (std) *)

\* the literal "{VERSION}"
VERSION == <<"{", "V", "E", "R", "S", "I", "O", "N", "}">>

starts_with(s, p) == Len(s) >= Len(p) /\ SubSeq(s, 1, Len(p)) = p

ends_with(s, x) == Len(s) >= Len(x) /\ SubSeq(s, Len(s) - Len(x) + 1, Len(s)) = x

\* positions at which pat occurs in s
Occurrences(s, pat) ==
    {k \in 1 .. (Len(s) - Len(pat) + 1) : SubSeq(s, k, k + Len(pat) - 1) = pat}

contains(s, pat) == Occurrences(s, pat) # {}

\* str::split_once: split at the first occurrence of pat
split_once(s, pat) ==
    IF ~contains(s, pat) THEN None
    ELSE LET k == CHOOSE k \in Occurrences(s, pat) :
                      \A j \in Occurrences(s, pat) : k <= j
         IN  Some(<<SubSeq(s, 1, k - 1), SubSeq(s, k + Len(pat), Len(s))>>)

\* str::split(char): the fields between the separators, at least one field
RECURSIVE split(_, _)
split(s, sep) ==
    IF \A k \in 1 .. Len(s) : s[k] # sep THEN <<s>>
    ELSE LET k == CHOOSE k \in 1 .. Len(s) :
                      s[k] = sep /\ \A j \in 1 .. (k - 1) : s[j] # sep
         IN  <<SubSeq(s, 1, k - 1)>> \o split(SubSeq(s, k + 1, Len(s)), sep)

\* [&str]::join(sep)
RECURSIVE join(_, _)
join(parts, sep) ==
    IF Len(parts) = 0 THEN <<>>
    ELSE IF Len(parts) = 1 THEN parts[1]
    ELSE parts[1] \o <<sep>> \o join(Tail(parts), sep)

----------------------------------------------------------------------------
(* AwesomeVersion: a str subclass, ordered component-wise.                 *)

DigitVal(c) ==
    CASE c = "0" -> 0 [] c = "1" -> 1 [] c = "2" -> 2 [] c = "3" -> 3
      [] c = "4" -> 4 [] c = "5" -> 5 [] c = "6" -> 6 [] c = "7" -> 7
      [] c = "8" -> 8 [] c = "9" -> 9

\* the numeric components of a dotted version string, read left to right
RECURSIVE Sections(_, _, _)
Sections(v, k, cur) ==
    IF k > Len(v) THEN <<cur>>
    ELSE IF v[k] = "." THEN <<cur>> \o Sections(v, k + 1, 0)
    ELSE Sections(v, k + 1, 10 * cur + DigitVal(v[k]))

Components(v) == Sections(v, 1, 0)

Section(c, k) == IF k <= Len(c) THEN c[k] ELSE 0

\* -1, 0, 1: lexicographic over components, missing components are zero
RECURSIVE CmpFrom(_, _, _)
CmpFrom(a, b, k) ==
    IF k > Len(a) /\ k > Len(b) THEN 0
    ELSE IF Section(a, k) < Section(b, k) THEN -1
    ELSE IF Section(a, k) > Section(b, k) THEN 1
    ELSE CmpFrom(a, b, k + 1)

VersionCmp(a, b) == CmpFrom(Components(a), Components(b), 1)

\* AwesomeVersion::new
AwesomeVersion(s) == s

\* AwesomeVersion::le / ge
le(a, b) == VersionCmp(a, b) <= 0
ge(a, b) == VersionCmp(a, b) >= 0

----------------------------------------------------------------------------
(* Values the operations are called with *)

NsIds == {1, 2}

StaticUri == <<"h", "/", "s">>
UriPrefix == <<"h", "/">>
UriSuffix == <<"/", "x">>
VersionedUri == UriPrefix \o VERSION \o UriSuffix

VersionedUriNoSuffix == UriPrefix \o VERSION

UriArgs == {StaticUri, VersionedUri}
UriArgsAll == {StaticUri, VersionedUri, VersionedUriNoSuffix}
MaxverArgs == {None, Some(<<"7", ".", "0">>)}

V0 == <<"0">>
V1_0 == <<"1", ".", "0">>
V2_0 == <<"2", ".", "0">>
V3 == <<"3">>

V1 == <<"1">>
V1_2 == <<"1", ".", "2">>
V1_2_3 == <<"1", ".", "2", ".", "3">>
V7_0_0 == <<"7", ".", "0", ".", "0">>

\* dotted version strings given to trim_version()
VersionStrings == {V1, V1_2, V1_2_3, V7_0_0}

\* what stands between prefix and suffix in the URIs given to match_uri()
VersionFields ==
    {<<>>, VERSION, V1, V1_2, V1_2_3, <<"1", "/", "2">>, <<"a", ".", "b", ".", "c">>}

\* the URIs given to match_uri()
UriInputs ==
    {UriPrefix \o v \o UriSuffix : v \in VersionFields}
        \cup {UriPrefix \o v : v \in VersionFields}
        \cup {StaticUri, StaticUri \o <<"/">>, <<"h", "/", "x">>,
              <<"g", "/", "1", "/", "x">>}

\* Python classes: identity, __name__ and __capella_namespace__
\* (ns = 0: the attribute is missing or is no Namespace)
Classes ==
    { [id |-> "A", name |-> "X", ns |-> 1],
      [id |-> "B", name |-> "X", ns |-> 1],
      [id |-> "C", name |-> "Y", ns |-> 1],
      [id |-> "D", name |-> "X", ns |-> 2],
      [id |-> "E", name |-> "X", ns |-> 0] }

ClassNames == {"X", "Y"}

\* (minver, maxver) arguments of register()
RangeArgs == {<<None, None>>, <<Some(V1_0), Some(V2_0)>>, <<Some(V2_0), None>>}
LookupVersions == {None, Some(V1_0), Some(V2_0), Some(V3)}

\* the arguments __new__ accepts, with the default version_precision = 1
ValidNewArgs ==
    {a \in [uri : UriArgs, maxver : MaxverArgs] :
        contains(a.uri, VERSION) <=> IsSome(a.maxver)}

----------------------------------------------------------------------------
(* Namespace *)

Constructed(i) == IsSome(namespaces[i])
Ns(i) == Unwrap(namespaces[i])

\* the outcome of the last call
Result(op, i, arg, tag, val) ==
    [op |-> op, ns |-> i, arg |-> arg, tag |-> tag, val |-> val]

\* Namespace::__new__, the checks
NewError_maxver_unchecked(uri, maxver, version_precision) ==
    IF version_precision < 1 THEN "ValueError"
    ELSE IF contains(uri, VERSION) /\ ~IsSome(maxver) THEN "TypeError"
    ELSE "ok"
NewError(uri, maxver, version_precision) ==
    IF version_precision < 1 THEN "ValueError"
    ELSE IF contains(uri, VERSION) /\ ~IsSome(maxver) THEN "TypeError"
    ELSE IF ~contains(uri, VERSION) /\ IsSome(maxver) THEN "TypeError"
    ELSE "ok"

\* Namespace::__new__, the object built
NewNamespace(uri, alias, viewpoint, maxver, version_precision) ==
    [ uri               |-> uri,
      alias             |-> alias,
      viewpoint         |-> viewpoint,
      maxver            |-> IF IsSome(maxver)
                            THEN Some(split(Unwrap(maxver), "."))
                            ELSE None,
      version_precision |-> version_precision,
      classes           |-> <<>> ]

New(i, uri, alias, viewpoint, maxver, version_precision) ==
    /\ UNCHANGED ldvars
    /\ ~Constructed(i)
    /\ LET err == NewError(uri, maxver, version_precision)
           arg == [uri |-> uri, maxver |-> maxver,
                   version_precision |-> version_precision]
       IN  IF err # "ok"
           THEN /\ res' = Result("new", i, arg, err, None)
                /\ UNCHANGED namespaces
           ELSE /\ namespaces' =
                      [namespaces EXCEPT ![i] =
                          Some(NewNamespace(uri, alias, viewpoint, maxver,
                                            version_precision))]
                /\ res' = Result("new", i, arg, "ok", None)
    /\ UNCHANGED calls

\* Py::is, the identity of two Namespace objects
is_ns_byuri(cls_ns, slf) == Ns(cls_ns).uri = Ns(slf).uri /\ Ns(cls_ns).alias = Ns(slf).alias
is_ns(cls_ns, slf) == cls_ns = slf

\* one element of the Vec kept per class name
Entry(cls, minver, maxver) == [cls |-> cls, minver |-> minver, maxver |-> maxver]

\* register(), lines 215-222: the defaults of minver and maxver
entry_of(cls, minver, maxver) ==
    Entry(cls.id,
          IF IsSome(minver) THEN AwesomeVersion(Unwrap(minver)) ELSE AwesomeVersion(V0),
          IF IsSome(maxver) THEN Some(AwesomeVersion(Unwrap(maxver))) ELSE None)

\* classes.entry(clsname).or_insert_with(Vec::new) followed by push
push_front(classes, clsname, e) ==
    [n \in DOMAIN classes \cup {clsname} |->
        IF n = clsname
        THEN (IF n \in DOMAIN classes THEN <<e>> \o classes[n] ELSE <<e>>)
        ELSE classes[n]]
push(classes, clsname, e) ==
    [n \in DOMAIN classes \cup {clsname} |->
        IF n = clsname
        THEN (IF n \in DOMAIN classes THEN Append(classes[n], e) ELSE <<e>>)
        ELSE classes[n]]

\* classes.entry(clsname).or_insert_with(Vec::new), line 214
or_insert_with(classes, clsname) ==
    [n \in DOMAIN classes \cup {clsname} |->
        IF n \in DOMAIN classes THEN classes[n] ELSE <<>>]

\* AwesomeVersion::new succeeds: the string is a dotted numeric string
parses(s) ==
    /\ s # <<>>
    /\ \A k \in 1 .. Len(s) :
           s[k] \in {"0", "1", "2", "3", "4", "5", "6", "7", "8", "9", "."}

\* register(), lines 215-222: the first of the two versions that does not
\* parse ends the call
version_error(minver, maxver) ==
    \/ IsSome(minver) /\ ~parses(Unwrap(minver))
    \/ IsSome(maxver) /\ ~parses(Unwrap(maxver))

Register(i, cls, minver, maxver) ==
    /\ UNCHANGED ldvars
    /\ Constructed(i)
    /\ cls.ns # 0 => Constructed(cls.ns)
    /\ LET arg == [cls |-> cls, minver |-> minver, maxver |-> maxver]
       IN  IF cls.ns = 0
           THEN /\ res' = Result("register", i, arg, "AttributeError", None)
                /\ UNCHANGED <<namespaces, calls>>
           ELSE IF ~is_ns(cls.ns, i)
           THEN /\ res' = Result("register", i, arg, "ValueError", None)
                /\ UNCHANGED <<namespaces, calls>>
           ELSE IF version_error(minver, maxver)
           THEN /\ res' = Result("register", i, arg, "AwesomeVersionException", None)
                /\ namespaces' =
                      [namespaces EXCEPT ![i] =
                          Some([Ns(i) EXCEPT !.classes = or_insert_with(@, cls.name)])]
                /\ UNCHANGED calls
           ELSE /\ Len(calls) < MaxRegs
                /\ namespaces' =
                      [namespaces EXCEPT ![i] =
                          Some([Ns(i) EXCEPT !.classes =
                                   push(@, cls.name, entry_of(cls, minver, maxver))])]
                /\ calls' = Append(calls, [ns |-> i, cls |-> cls,
                                           minver |-> minver, maxver |-> maxver])
                /\ res' = Result("register", i, arg, "ok", None)

\* get_class(), line 145
is_versioned_never(uri) == FALSE
is_versioned(uri) == contains(uri, VERSION)

\* get_class(), lines 161-173: the filter_map closure
keeps_none_as_zero(e, version) ==
    LET v == IF IsSome(version) THEN Unwrap(version) ELSE V0
    IN  /\ le(e.minver, v)
        /\ IsSome(e.maxver) => ge(Unwrap(e.maxver), v)
keeps_ignoring_max(e, version) ==
    IF ~IsSome(version) THEN TRUE ELSE le(e.minver, Unwrap(version))
keeps(e, version) ==
    IF ~IsSome(version) THEN TRUE
    ELSE /\ le(e.minver, Unwrap(version))
         /\ IsSome(e.maxver) => ge(Unwrap(e.maxver), Unwrap(version))

RECURSIVE filter_map(_, _)
filter_map(classes, version) ==
    IF Len(classes) = 0 THEN <<>>
    ELSE (IF keeps(Head(classes), version) THEN <<Head(classes)>> ELSE <<>>)
         \o filter_map(Tail(classes), version)

\* PyAny::compare, with unwrap_or(Ordering::Equal)
compare(a, b) == VersionCmp(a, b)

\* the closure given to sort_by, line 176: -1 when left is ordered first
by_minver_asc(left, right) == compare(left.minver, right.minver)
by_minver_desc_later_first(left, right) ==
    IF compare(right.minver, left.minver) = 0 THEN 0 - 1
    ELSE compare(right.minver, left.minver)
by_minver_desc(left, right) == compare(right.minver, left.minver)

\* slice::sort_by: a stable sort
RECURSIVE insert_sorted(_, _)
insert_sorted(sorted, x) ==
    IF Len(sorted) = 0 THEN <<x>>
    ELSE IF by_minver_desc(x, Head(sorted)) < 0
         THEN <<x>> \o sorted
         ELSE <<Head(sorted)>> \o insert_sorted(Tail(sorted), x)

RECURSIVE sort_by(_)
sort_by(c) ==
    IF Len(c) = 0 THEN <<>>
    ELSE insert_sorted(sort_by(SubSeq(c, 1, Len(c) - 1)), c[Len(c)])

\* get_class(), lines 153-179
candidates(ns, clsname, version) ==
    IF clsname \in DOMAIN ns.classes
    THEN sort_by(filter_map(ns.classes[clsname], version))
    ELSE <<>>

GetClass(i, clsname, version) ==
    /\ UNCHANGED ldvars
    /\ Constructed(i)
    /\ LET arg == [clsname |-> clsname, version |-> version]
           c == candidates(Ns(i), clsname, version)
       IN  IF is_versioned(Ns(i).uri) /\ ~IsSome(version)
           THEN res' = Result("get_class", i, arg, "TypeError", None)
           ELSE IF Len(c) = 0
           THEN res' = Result("get_class", i, arg, "MissingClassError",
                              <<i, version, clsname>>)
           ELSE res' = Result("get_class", i, arg, "ok", c[1].cls)
    /\ UNCHANGED <<namespaces, calls>>

\* the outcome of a function that returns a value or panics
Ok(v) == [tag |-> "ok", val |-> v]
Panic == [tag |-> "panic", val |-> None]

\* trim_version(), lines 232-234: parts[version_precision..] set to "0"
zero_from(parts, version_precision) ==
    [k \in 1 .. Len(parts) |-> IF k > version_precision THEN <<"0">> ELSE parts[k]]

\* Namespace::trim_version; slicing parts[version_precision..] panics when
\* version_precision > parts.len()
trim_version(version_precision, version) ==
    LET parts == split(version, ".")
    IN  IF ~(version_precision > 0) THEN Panic
        ELSE IF version_precision > Len(parts) THEN Panic
        ELSE Ok(join(zero_from(parts, version_precision), "."))

TrimVersion(i, version) ==
    /\ UNCHANGED ldvars
    /\ Constructed(i)
    /\ LET r == trim_version(Ns(i).version_precision, version)
       IN  res' = Result("trim_version", i, version, r.tag, r.val)
    /\ UNCHANGED <<namespaces, calls>>

\* trim_version applied to the string the last trim_version returned
TrimAgain(i) ==
    /\ UNCHANGED ldvars
    /\ Constructed(i)
    /\ res.op = "trim_version" /\ res.ns = i /\ res.tag = "ok"
    /\ LET r == trim_version(Ns(i).version_precision, res.val)
       IN  res' = Result("trim_version_again", i, res.val, r.tag, r.val)
    /\ UNCHANGED <<namespaces, calls>>

\* Namespace::match_uri: False, True, None or an AwesomeVersion
\* match_uri(), line 134: str equality with the stored URI
is_uri_prefixed(uri, ns_uri) == starts_with(uri, ns_uri)
is_uri(uri, ns_uri) == uri = ns_uri

\* match_uri(), lines 118-120: prefix and suffix both fit into uri
fits_overlapping(uri, prefix, suffix) ==
    starts_with(uri, prefix) /\ ends_with(uri, suffix)
fits(uri, prefix, suffix) ==
    /\ Len(uri) >= Len(prefix) + Len(suffix)
    /\ starts_with(uri, prefix)
    /\ ends_with(uri, suffix)

match_uri(ns, uri) ==
    LET so == split_once(ns.uri, VERSION)
    IN  IF IsSome(so)
        THEN LET prefix == Unwrap(so)[1]
                 suffix == Unwrap(so)[2]
             IN  IF fits(uri, prefix, suffix)
                 THEN LET v == SubSeq(uri, Len(prefix) + 1, Len(uri) - Len(suffix))
                      IN  IF contains(v, <<"/">>) THEN [tag |-> "False", val |-> None]
                          ELSE IF v = <<>> \/ v = VERSION
                          THEN [tag |-> "None", val |-> None]
                          ELSE LET t == trim_version(ns.version_precision, v)
                               IN  IF t.tag = "panic" THEN Panic
                                   ELSE [tag |-> "version",
                                         val |-> AwesomeVersion(t.val)]
                 ELSE [tag |-> "False", val |-> None]
        ELSE [tag |-> IF is_uri(uri, ns.uri) THEN "True" ELSE "False", val |-> None]

MatchUri(i, uri) ==
    /\ UNCHANGED ldvars
    /\ Constructed(i)
    /\ LET r == match_uri(Ns(i), uri)
       IN  res' = Result("match_uri", i, uri, r.tag, r.val)
    /\ UNCHANGED <<namespaces, calls>>

----------------------------------------------------------------------------
(* The class registry: two Namespace objects have been constructed with the *)
(* same URI and alias (two instances that are equal but not identical);     *)
(* classes are registered and looked up.                                    *)

\* no load is under way
\* the elements and the threads of the Python side; no thread has touched
\* the storage of an element
MaxObjects == 2
MaxThreads == 2
Objects == 1 .. MaxObjects
Threads == 1 .. MaxThreads
Idle ==
    [pc |-> "idle", fn |-> "none", elm |-> 0, key |-> <<>>, ret |-> <<>>,
     out |-> <<>>, overlapped |-> {}]
NoData ==
    /\ dicts = [e \in Objects |-> [k \in {} |-> <<>>]]
    /\ threads = [t \in Threads |-> Idle]
    /\ held = [e \in Objects |-> 0]
    /\ made = 0
    /\ string_cache = [s \in {} |-> 0]
    /\ arcs = <<>>
    /\ elems = <<>>
    /\ inner = <<>>
    /\ types = <<>>
    /\ relations = <<>>

NoLoad ==
    /\ document = <<>>
    /\ pos = 0
    /\ outcome = "running"
    /\ stack = <<>>
    /\ id_index = [k \in {} |-> None]
    /\ corrupt = FALSE
    /\ entrypoint = <<>>
    /\ resources = [k \in {} |-> <<>>]
    /\ opened = <<>>
    /\ buf = <<>>
    /\ NoData

Init ==
    /\ NoLoad
    /\ \E a \in ValidNewArgs :
           namespaces =
               [i \in NsIds |-> Some(NewNamespace(a.uri, <<"a">>, None, a.maxver, 1))]
    /\ calls = <<>>
    /\ res = Result("init", 0, None, "ok", None)

Next ==
    \E i \in NsIds :
        \/ \E cls \in Classes, r \in RangeArgs : Register(i, cls, r[1], r[2])
        \/ \E clsname \in ClassNames, version \in LookupVersions :
               GetClass(i, clsname, version)

Spec == Init /\ [][Next]_vars

----------------------------------------------------------------------------
(* Properties of get_class and register *)

\* the entries registered under clsname in namespace i
Registered(i, clsname) ==
    IF clsname \in DOMAIN Ns(i).classes THEN Ns(i).classes[clsname] ELSE <<>>

\* min_version <= v and (max_version unbounded or max_version >= v)
CoversVersion(e, v) ==
    /\ VersionCmp(e.minver, v) <= 0
    /\ e.maxver = None \/ VersionCmp(Unwrap(e.maxver), v) >= 0

\* cls is the class of an entry of es that has the greatest min_version in es
ClassOfGreatestMin(cls, es) ==
    \E e \in es : /\ e.cls = cls
                  /\ \A f \in es : VersionCmp(f.minver, e.minver) <= 0

Range(seq) == {seq[k] : k \in 1 .. Len(seq)}

LookedUp == Range(Registered(res.ns, res.arg.clsname))

\* C1: get_class(name, v) returns the class of the entry with the greatest
\* min_version among the entries registered under name whose range covers v;
\* with A(min 1.0, max 2.0) and B(min 2.0, unbounded) and v = 2.0 it returns B,
\* in whichever order A and B were registered.
C1_GetClassGreatestCoveringMin ==
    (res.op = "get_class" /\ IsSome(res.arg.version)) =>
        LET v == Unwrap(res.arg.version)
            covering == {e \in LookedUp : CoversVersion(e, v)}
        IN  /\ covering # {} =>
                (res.tag = "ok" /\ ClassOfGreatestMin(res.val, covering))
            /\ (/\ LookedUp = {Entry("A", V1_0, Some(V2_0)), Entry("B", V2_0, None)}
                /\ v = V2_0) => res.val = "B"

C1_Witness ==
    /\ res.op = "get_class"
    /\ res.arg.version = Some(V2_0)
    /\ Registered(res.ns, res.arg.clsname) =
           <<Entry("A", V1_0, Some(V2_0)), Entry("B", V2_0, None)>>
    /\ res.val = "B"

\* C2: on an unversioned registry, get_class(name) without a version treats
\* every entry registered under name as a candidate, whatever its range, and
\* returns the class of the entry with the greatest min_version.
C2_GetClassNoVersion ==
    (/\ res.op = "get_class"
     /\ res.arg.version = None
     /\ ~contains(Ns(res.ns).uri, VERSION)
     /\ LookedUp # {}) =>
        (res.tag = "ok" /\ ClassOfGreatestMin(res.val, LookedUp))

C2_Witness ==
    /\ res.op = "get_class"
    /\ res.arg.version = None
    /\ ~contains(Ns(res.ns).uri, VERSION)
    /\ Registered(res.ns, res.arg.clsname) =
           <<Entry("A", V0, None), Entry("B", V1_0, Some(V2_0))>>
    /\ res.val = "B"

\* C3: a lookup that supplies the version its registry requires fails with
\* MissingClassError, carrying the registry, the requested version and the
\* class name, exactly when no entry registered under the name covers the
\* requested version (every entry is a candidate when no version is
\* requested); otherwise it returns a class.
C3_MissingClassError ==
    (/\ res.op = "get_class"
     /\ ~(contains(Ns(res.ns).uri, VERSION) /\ res.arg.version = None)) =>
        LET covering ==
                IF res.arg.version = None THEN LookedUp
                ELSE {e \in LookedUp : CoversVersion(e, Unwrap(res.arg.version))}
        IN  IF covering = {}
            THEN /\ res.tag = "MissingClassError"
                 /\ res.val = <<res.ns, res.arg.version, res.arg.clsname>>
            ELSE /\ res.tag = "ok"
                 /\ res.val \in {e.cls : e \in covering}

C3_Witness ==
    /\ res.op = "get_class"
    /\ res.tag = "MissingClassError"
    /\ res.arg.version = Some(V3)
    /\ LookedUp = {Entry("A", V1_0, Some(V2_0))}

\* C4: on a registry whose URI contains the version placeholder, get_class
\* without a version always fails with the "versioned namespace, but no
\* version requested" error, whatever the class table contains.
C4_VersionedNeedsVersion ==
    (/\ res.op = "get_class"
     /\ res.arg.version = None
     /\ contains(Ns(res.ns).uri, VERSION)) =>
        (res.tag = "TypeError" /\ res.val = None)

C4_Witness ==
    /\ res.op = "get_class"
    /\ res.arg.version = None
    /\ contains(Ns(res.ns).uri, VERSION)
    /\ LookedUp # {}
    /\ res.tag = "TypeError"

\* C5: register(cls, ...) is rejected whenever cls declares a registry other
\* than this very Namespace object as its namespace, also when the two have
\* the same URI and alias, and a rejected registration leaves every class
\* table as it was.
C5_RegisterRejectsForeignClass ==
    [][ res'.op = "register" =>
          /\ res'.arg.cls.ns # res'.ns => res'.tag # "ok"
          /\ res'.tag # "ok" => namespaces' = namespaces ]_vars

C5_Witness ==
    /\ res.op = "register"
    /\ res.arg.cls.ns = 2
    /\ res.ns = 1
    /\ Ns(1).uri = Ns(2).uri /\ Ns(1).alias = Ns(2).alias
    /\ res.tag = "ValueError"

\* the entries that the successful calls made for (i, clsname) ask for
RECURSIVE EntriesAsked(_, _, _)
EntriesAsked(cs, i, clsname) ==
    IF Len(cs) = 0 THEN <<>>
    ELSE LET c == Head(cs)
         IN  (IF c.ns = i /\ c.cls.name = clsname
              THEN << [cls    |-> c.cls.id,
                       minver |-> IF c.minver = None THEN V0 ELSE Unwrap(c.minver),
                       maxver |-> c.maxver] >>
              ELSE <<>>)
             \o EntriesAsked(Tail(cs), i, clsname)

\* C6: after any sequence of successful register calls the class table
\* holds, per class name, one entry per call made for that name, in call
\* order, each (class, min, max) with min defaulting to version 0 and max to
\* unbounded; entries registered earlier are unchanged.
C6_RegisterAppends ==
    \A i \in NsIds :
        /\ DOMAIN Ns(i).classes =
               {n \in ClassNames : EntriesAsked(calls, i, n) # <<>>}
        /\ \A n \in ClassNames : Registered(i, n) = EntriesAsked(calls, i, n)

C6_Witness ==
    /\ Len(calls) >= 2
    /\ calls[1].cls.name = calls[2].cls.name
    /\ calls[1].ns = calls[2].ns
    /\ calls[1].cls # calls[2].cls
    /\ calls[2].minver = None
    /\ calls[1].maxver # None
    /\ res.op = "register" /\ res.tag = "ok"

----------------------------------------------------------------------------
(* One Namespace over its whole life: __new__, then every method.          *)

InitUri ==
    /\ NoLoad
    /\ namespaces = [i \in NsIds |-> None]
    /\ calls = <<>>
    /\ res = Result("init", 0, None, "ok", None)

NextUri ==
    \/ \E uri \in UriArgsAll, maxver \in MaxverArgs, p \in 0 .. MaxPrecision :
           New(1, uri, <<"a">>, None, maxver, p)
    \/ \E version \in VersionStrings : TrimVersion(1, version)
    \/ TrimAgain(1)
    \/ \E uri \in UriInputs : MatchUri(1, uri)
    \/ Register(1, [id |-> "A", name |-> "X", ns |-> 1], None, None)
    \/ \E version \in {None, Some(V2_0)} : GetClass(1, "X", version)

SpecUri == InitUri /\ [][NextUri]_vars

\* the arguments __new__ must accept
Acceptable(arg) ==
    /\ arg.version_precision >= 1
    /\ contains(arg.uri, VERSION) <=> arg.maxver # None

C7_Invariant ==
    /\ \A i \in NsIds :
           Constructed(i) =>
               /\ Ns(i).version_precision >= 1
               /\ contains(Ns(i).uri, VERSION) <=> Ns(i).maxver # None
    /\ res.op = "new" =>
           IF Acceptable(res.arg)
           THEN /\ res.tag = "ok"
                /\ Constructed(res.ns)
                /\ Ns(res.ns).uri = res.arg.uri
                /\ Ns(res.ns).version_precision = res.arg.version_precision
           ELSE /\ res.tag # "ok"
                /\ ~Constructed(res.ns)

C7_Frozen ==
    \A i \in NsIds :
        Constructed(i) =>
            /\ Constructed(i)'
            /\ Ns(i)'.uri = Ns(i).uri
            /\ Ns(i)'.maxver = Ns(i).maxver
            /\ Ns(i)'.version_precision = Ns(i).version_precision

\* C7: every Namespace that __new__ accepts has version_precision >= 1 and
\* has a maxver exactly when its URI contains the version placeholder;
\* __new__ fails on every other combination and yields no registry; no later
\* operation (register, get_class, match_uri, trim_version) changes uri,
\* maxver or version_precision.
C7_NamespaceInvariant == []C7_Invariant /\ [][C7_Frozen]_vars

C7_Witness ==
    /\ Constructed(1)
    /\ contains(Ns(1).uri, VERSION)
    /\ Ns(1).version_precision = 2
    /\ Len(calls) > 0
    /\ res.op = "match_uri" /\ res.tag = "version"

\* C8: trim_version is idempotent for every registry and every dotted
\* version string v: trim_version(trim_version(v)) = trim_version(v).
C8_TrimIdempotent ==
    /\ res.op = "trim_version" => res.tag = "ok"
    /\ res.op = "trim_version_again" => (res.tag = "ok" /\ res.val = res.arg)

\* C9: trim_version is total: for a version string of n components, also
\* when n < version_precision, it returns a string of n components, the
\* first min(n, version_precision) those of v, the others "0".
C9_TrimTotal ==
    res.op \in {"trim_version", "trim_version_again"} =>
        /\ res.tag = "ok"
        /\ LET p == Ns(res.ns).version_precision
               given == split(res.arg, ".")
               got == split(res.val, ".")
           IN  /\ Len(got) = Len(given)
               /\ \A k \in 1 .. Len(given) :
                      got[k] = IF k <= p THEN given[k] ELSE <<"0">>

\* C10: for a registry whose URI is P + "{VERSION}" + S and every v that is
\* not empty, contains no "/" and is not the placeholder text,
\* match_uri(P + v + S) yields the version parsed from trim_version(v).
C10_MatchUriVersion ==
    \A S \in {<<>>, UriSuffix}, v \in VersionFields :
        (/\ res.op = "match_uri"
         /\ Ns(res.ns).uri = UriPrefix \o VERSION \o S
         /\ res.arg = UriPrefix \o v \o S
         /\ v # <<>> /\ ~contains(v, <<"/">>) /\ v # VERSION) =>
            LET t == trim_version(Ns(res.ns).version_precision, v)
            IN  /\ t.tag = "ok"
                /\ res.tag = "version"
                /\ res.val = AwesomeVersion(t.val)

----------------------------------------------------------------------------
(* What trim_version does do *)

\* trim_version panics exactly when the version has fewer components than
\* version_precision, and meets its description wherever it returns
TrimPanicsExactlyWhenShort ==
    res.op \in {"trim_version", "trim_version_again"} =>
        IF Len(split(res.arg, ".")) < Ns(res.ns).version_precision
        THEN res.tag = "panic"
        ELSE C9_TrimTotal

\* trimming a string that trim_version returned gives that string back
TrimIdempotentWhereDefined ==
    res.op = "trim_version_again" => (res.tag = "ok" /\ res.val = res.arg)

----------------------------------------------------------------------------
(* Properties of match_uri *)

\* the fields f with uri = prefix + f + suffix (at most one)
FieldsBetween(uri, prefix, suffix) ==
    {f \in {SubSeq(uri, a, b) : a \in 1 .. Len(uri) + 1, b \in 0 .. Len(uri)} :
        uri = prefix \o f \o suffix}

\* C11: a registry whose URI has no placeholder answers match_uri(uri) with
\* True when uri equals the stored URI exactly and with False otherwise,
\* never with None and never with a version.
C11_MatchUriUnversioned ==
    (res.op = "match_uri" /\ ~contains(Ns(res.ns).uri, VERSION)) =>
        /\ res.tag = (IF res.arg = Ns(res.ns).uri THEN "True" ELSE "False")
        /\ res.val = None

\* an unversioned registry was asked for a URI that only starts with its own
C11_Witness ==
    /\ res.op = "match_uri"
    /\ Ns(res.ns).uri = StaticUri
    /\ res.arg = StaticUri \o <<"/">>
    /\ res.tag = "False"

\* C12: for a registry whose URI is P + "{VERSION}" + S, match_uri answers
\* False for P + f + S when f contains "/", None when f is empty or is the
\* placeholder text, and False (never a failure) for every uri that is not
\* P + f + S for any f: one that lacks P or S or is too short for both.
C12_MatchUriVersionedNoVersion ==
    \A S \in {<<>>, UriSuffix} :
        (res.op = "match_uri" /\ Ns(res.ns).uri = UriPrefix \o VERSION \o S) =>
            LET fs == FieldsBetween(res.arg, UriPrefix, S)
            IN  /\ fs = {} => (res.tag = "False" /\ res.val = None)
                /\ \A f \in fs :
                       /\ contains(f, <<"/">>) => (res.tag = "False" /\ res.val = None)
                       /\ (f = <<>> \/ f = VERSION) =>
                              (res.tag = "None" /\ res.val = None)

\* "h/x" has the prefix "h/" and the suffix "/x", but they overlap
C12_Witness ==
    /\ res.op = "match_uri"
    /\ Ns(res.ns).uri = VersionedUri
    /\ res.arg = <<"h", "/", "x">>
    /\ starts_with(res.arg, UriPrefix) /\ ends_with(res.arg, UriSuffix)
    /\ FieldsBetween(res.arg, UriPrefix, UriSuffix) = {}
    /\ res.tag = "False"

----------------------------------------------------------------------------
(* Part 2: the loader.  parse_from_resources reads the events of the XML   *)
(* tokenizer one by one; element and attribute names are strings, so that  *)
(* their prefixes are computed as the tokenizer computes them.             *)

\* the number of events one load reads at most
MaxEvents == 3

\* parse.rs, line 23
NAMESPACE_XSI ==
    <<"h", "t", "t", "p", ":", "/", "/", "w", "w", "w", ".", "w", "3",
    ".", "o", "r", "g", "/", "2", "0", "0", "1", "/", "X", "M", "L", "S",
    "c", "h", "e", "m", "a", "-", "i", "n", "s", "t", "a", "n", "c", "e">>

\* an error return (PyErr of the given exception class)
Err(e) == [tag |-> e, val |-> None]

\* HashMap::new and HashMap::insert
HashMap_new == [k \in {} |-> None]
insert(map, key, value) ==
    [k \in DOMAIN map \cup {key} |-> IF k = key THEN value ELSE map[k]]

\* QName::prefix and QName::local_name: the name is split at its first ':'
prefix(qname) ==
    LET so == split_once(qname, <<":">>)
    IN  IF IsSome(so) THEN Some(Unwrap(so)[1]) ELSE None
local_name(qname) ==
    LET so == split_once(qname, <<":">>)
    IN  IF IsSome(so) THEN Unwrap(so)[2] ELSE qname

\* Prefix::is_xml and Prefix::is_xmlns
is_xml(p) == p = <<"x", "m", "l">>
is_xmlns(p) == p = <<"x", "m", "l", "n", "s">>

\* parse_element(), line 118: the guard of the arm that captures xsi:type
is_xsi_by_alias(p) == p = <<"x", "s", "i">>
is_xsi(p) == p = NAMESPACE_XSI

\* the locals of parse_element(), lines 100-102
Locals(namespaces_, attrs, xtype) ==
    [namespaces |-> namespaces_, attrs |-> attrs, xtype |-> xtype]

\* parse_element(), lines 118-139: what the loop does with an attribute whose
\* key has the prefix p
scan_prefixed(l, attr, p) ==
    IF l.xtype = None /\ IsSome(p) /\ is_xsi(Unwrap(p))
    THEN Ok([l EXCEPT !.xtype = Some(attr.value)])
    ELSE IF IsSome(p) /\ is_xml(Unwrap(p)) THEN Panic
    ELSE IF IsSome(p) /\ is_xmlns(Unwrap(p))
    THEN Ok([l EXCEPT !.namespaces = insert(@, Unwrap(p), attr.value)])
    ELSE IF IsSome(p) THEN Err("NotImplementedError")
    ELSE Ok([l EXCEPT !.attrs = insert(@, local_name(attr.key), attr.value)])

\* parse_element(), lines 104-139: the body of the loop over the attributes
scan_attribute(l, attr) == scan_prefixed(l, attr, prefix(attr.key))

\* parse_element(), line 103: for attr in event.attributes()
RECURSIVE scan_attributes(_, _)
scan_rest(r, attributes) ==
    IF r.tag = "ok" THEN scan_attributes(r.val, attributes) ELSE r
scan_attributes(l, attributes) ==
    IF attributes = <<>> THEN Ok(l)
    ELSE scan_rest(scan_attribute(l, Head(attributes)), Tail(attributes))

\* Namespace::find (called at parse.rs line 147, absent from rust/src): the
\* registered Namespace that has the given alias
Namespace_find(nsalias) ==
    IF \E i \in NsIds : Constructed(i) /\ Ns(i).alias = nsalias
    THEN Ok(CHOOSE i \in NsIds : Constructed(i) /\ Ns(i).alias = nsalias)
    ELSE Err("LookupError")

\* ModelElement::new, pytypes.rs lines 123-126: todo!()
ModelElement_new(ns, clsname, attrs, oid) == Panic

\* ModelElement::id: getattr(elm, "uuid")
ModelElement_id(elm) ==
    IF <<"u", "u", "i", "d">> \in DOMAIN elm.attributes
    THEN Ok(elm.attributes[<<"u", "u", "i", "d">>])
    ELSE Err("AttributeError")

\* the fields of the NativeLoader that a load writes, model.rs lines 36-38
Model(id_index_, corrupt_) == [id_index |-> id_index_, corrupt |-> corrupt_]

\* NativeLoader::mark_corrupt
mark_corrupt(model) == [model EXCEPT !.corrupt = TRUE]

\* parse_element(), lines 149-160: model.id_index.entry(id)
index_entry(model, id, elm) ==
    IF id \in DOMAIN model.id_index
    THEN mark_corrupt([model EXCEPT !.id_index = insert(@, id, elm)])
    ELSE [model EXCEPT !.id_index = insert(@, id, elm)]

\* struct XMLElement as parse_element() builds it, lines 166-171; oid is the
\* identity of the Python object
XMLElement(oid, nsalias, localname, attributes) ==
    [kind |-> "XMLElement", oid |-> oid, tag |-> <<nsalias, localname>>,
     text |-> None, attributes |-> attributes, children |-> <<>>]

\* one entry of the stack: (HashMap<String, String>, AnyElement)
Frame(namespaces_, elm) == [namespaces |-> namespaces_, elm |-> elm]

\* parse_element(), lines 148-161: the id index takes the ModelElement
indexed(model, l, elm, id) ==
    IF elm.tag # "ok" THEN elm
    ELSE IF id.tag # "ok" THEN id
    ELSE Ok([model |-> index_entry(model, id.val, elm.val),
             frame |-> Frame(l.namespaces, elm.val)])

\* parse_element(), lines 147-148: find the Namespace, make the ModelElement
typed(model, l, oid, ns, clsname) ==
    IF ns.tag # "ok" THEN ns
    ELSE indexed(model, l, ModelElement_new(ns.val, clsname, l.attrs, oid),
                 ModelElement_id(ModelElement_new(ns.val, clsname, l.attrs, oid).val))

\* parse_element(), lines 142-146: xtype.split_once(':')
qualified(model, l, oid, so) ==
    IF ~IsSome(so) THEN Err("NotImplementedError")
    ELSE typed(model, l, oid, Namespace_find(Unwrap(so)[1]), Unwrap(so)[2])

\* parse_element(), lines 141-173, r being what the loop over the attributes
\* came to
built(model, event, oid, r) ==
    IF r.tag # "ok" THEN r
    ELSE IF IsSome(r.val.xtype)
    THEN qualified(model, r.val, oid, split_once(Unwrap(r.val.xtype), <<":">>))
    ELSE IF IsSome(prefix(event.name)) THEN Panic
    ELSE Ok([model |-> model,
             frame |-> Frame(r.val.namespaces,
                             XMLElement(oid, None, local_name(event.name),
                                        r.val.attrs))])

\* parse_element(): Ok with the frame and the written model, or the failure
parse_element(model, parents, event, oid) ==
    built(model, event, oid,
          scan_attributes(Locals(HashMap_new, HashMap_new, None), event.attrs))

\* finish_element(), lines 176-183: todo!()
finish_element(model, parents, element) == Panic

----------------------------------------------------------------------------
(* The events a document is made of *)

Attr(key, value) == [key |-> key, value |-> value]

Event(kind, name, attrs, text, valid) ==
    [kind |-> kind, name |-> name, attrs |-> attrs, text |-> text, valid |-> valid]

\* an event that carries no data
Bare(kind) == Event(kind, <<>>, <<>>, <<>>, TRUE)

K == <<"k">>
UUID == <<"u", "u", "i", "d">>
XSI_TYPE == <<"x", "s", "i", ":", "t", "y", "p", "e">>

NoAttrs == <<>>
PlainAttrs == <<Attr(K, <<"v">>)>>
TwoPlainAttrs == <<Attr(K, <<"v">>), Attr(UUID, <<"1">>)>>
Typed1Attrs == <<Attr(XSI_TYPE, <<"n", ":", "X">>), Attr(UUID, <<"1">>)>>
Typed2Attrs == <<Attr(XSI_TYPE, <<"n", ":", "X">>), Attr(UUID, <<"2">>)>>
UnqualifiedTypeAttrs == <<Attr(XSI_TYPE, <<"X">>), Attr(UUID, <<"1">>)>>
XmlnsAttrs == <<Attr(<<"x", "m", "l", "n", "s", ":", "n">>, <<"u">>)>>
ForeignPrefixAttrs == <<Attr(<<"q", ":", "z">>, <<"v">>)>>
XmlPrefixAttrs == <<Attr(<<"x", "m", "l", ":", "i", "d">>, <<"v">>)>>

TwoTypesAttrs ==
    <<Attr(XSI_TYPE, <<"n", ":", "X">>), Attr(<<"x", "s", "i", ":", "n", "i", "l">>, <<"n", ":", "Y">>),
      Attr(UUID, <<"1">>)>>
TwoXmlnsAttrs == <<Attr(<<"x", "m", "l", "n", "s", ":", "n">>, <<"u">>), Attr(<<"x", "m", "l", "n", "s", ":", "m">>, <<"w">>)>>
TypedNoIdAttrs == <<Attr(XSI_TYPE, <<"n", ":", "X">>)>>

AttrLists ==
    {NoAttrs, PlainAttrs, TwoPlainAttrs, Typed1Attrs, Typed2Attrs,
     UnqualifiedTypeAttrs, XmlnsAttrs, ForeignPrefixAttrs, XmlPrefixAttrs,
     TwoTypesAttrs, TwoXmlnsAttrs, TypedNoIdAttrs}

Names == {<<"a">>, <<"b">>}
PrefixedName == <<"p", ":", "a">>

\* the elements of the documents: <name attrs...>
Elements == (Names \X AttrLists) \cup {<<PrefixedName, NoAttrs>>}

\* text between the tags; valid = FALSE: bytes that do not decode
Texts == {Event("Text", <<>>, <<>>, t, TRUE) : t \in {<<" ">>, <<" ", "\n">>, <<"t">>, <<"u", " ">>}}
             \cup {Event("Text", <<>>, <<>>, <<"t">>, FALSE)}

\* the events that parse_from_resources reads and ignores, lines 83-86
Ignored == {"Comment", "DocType", "Decl", "PI"}

\* Ok(Event::...) and Err(e) as read_event_into returns them, but Eof
Events ==
    {Event(kind, e[1], e[2], <<>>, TRUE) : kind \in {"Start", "Empty"}, e \in Elements}
        \cup Texts
        \cup {Bare(kind) : kind \in {"End", "Err", "CData", "GeneralRef"} \cup Ignored}

\* the tokenizer's count of the tags that are open after n events
RECURSIVE Depth(_, _)
Depth(doc, n) ==
    IF n = 0 THEN 0
    ELSE Depth(doc, n - 1)
             + (IF doc[n].kind = "Start" THEN 1
                ELSE IF doc[n].kind = "End" THEN -1 ELSE 0)

\* char::is_whitespace
is_whitespace(c) == c \in {" ", "\n", "\t", "\r"}

\* BytesText::decode / xml_content of a text event
decode(ev) == IF ev.valid THEN Ok(ev.text) ELSE Err("UnicodeDecodeError")

\* parse_from_resources(), lines 57-60: the guard of the first Text arm
is_blank_never(ev) == FALSE
is_blank(ev) ==
    IF decode(ev).tag = "ok"
    THEN \A k \in 1 .. Len(decode(ev).val) : is_whitespace(decode(ev).val[k])
    ELSE FALSE

----------------------------------------------------------------------------
(* parse_from_resources(), lines 35-90: one action per arm of the match on *)
(* reader.read_event_into                                                  *)

\* read_event_into returns ev: the next event of the document
Reads(ev) ==
    /\ outcome = "running"
    /\ pos < MaxEvents \/ pos < Len(document)
    /\ IF pos < Len(document)
       THEN ev = document[pos + 1] /\ UNCHANGED document
       ELSE document' = Append(document, ev)
    /\ pos' = pos + 1
    /\ UNCHANGED opvars

\* the load ends with an error or a panic; what it wrote until then stays
Fails(r, model) ==
    /\ outcome' = r.tag
    /\ id_index' = model.id_index
    /\ corrupt' = model.corrupt
    /\ UNCHANGED stack

\* Err(e), lines 37-43
ErrEv(ev) ==
    /\ ev.kind = "Err"
    /\ Reads(ev)
    /\ Fails(Err("OSError"), Model(id_index, corrupt))
    /\ UNCHANGED nsvars

\* Ok(Event::Eof), line 44: the document has no further event
EofEv ==
    /\ outcome = "running"
    /\ pos = Len(document)
    /\ outcome' = "Ok"
    /\ UNCHANGED <<document, pos, stack, id_index, corrupt>>
    /\ UNCHANGED opvars
    /\ UNCHANGED nsvars

\* lines 46-47: what parse_element returned is pushed
Started_unpushed(elm) ==
    IF elm.tag # "ok" THEN Fails(elm, Model(id_index, corrupt))
    ELSE /\ id_index' = elm.val.model.id_index
         /\ corrupt' = elm.val.model.corrupt
         /\ UNCHANGED <<outcome, stack>>
Started(elm) ==
    IF elm.tag # "ok" THEN Fails(elm, Model(id_index, corrupt))
    ELSE /\ stack' = Append(stack, elm.val.frame)
         /\ id_index' = elm.val.model.id_index
         /\ corrupt' = elm.val.model.corrupt
         /\ UNCHANGED outcome

\* Ok(Event::Start(ev)), lines 45-48
StartEv(ev) ==
    /\ ev.kind = "Start"
    /\ Reads(ev)
    /\ Started(parse_element(Model(id_index, corrupt), stack, ev, pos + 1))
    /\ UNCHANGED nsvars

\* lines 51 and 55: finish_element has returned fin for an element, the model
\* being what it was at the call
Finished(fin, model, parents) ==
    IF fin.tag # "ok"
    THEN /\ outcome' = fin.tag
         /\ stack' = parents
         /\ id_index' = model.id_index
         /\ corrupt' = model.corrupt
    ELSE /\ stack' = fin.val.parents
         /\ id_index' = fin.val.model.id_index
         /\ corrupt' = fin.val.model.corrupt
         /\ UNCHANGED outcome

\* lines 50-51: what parse_element returned is finished
Emptied(elm) ==
    IF elm.tag # "ok" THEN Fails(elm, Model(id_index, corrupt))
    ELSE Finished(finish_element(elm.val.model, stack, elm.val.frame),
                  elm.val.model, stack)

\* Ok(Event::Empty(ev)), lines 49-52
EmptyEv(ev) ==
    /\ ev.kind = "Empty"
    /\ Reads(ev)
    /\ Emptied(parse_element(Model(id_index, corrupt), stack, ev, pos + 1))
    /\ UNCHANGED nsvars

\* lines 54-55: the top of the stack is popped and finished
Popped(elm, parents) ==
    Finished(finish_element(Model(id_index, corrupt), parents, elm),
             Model(id_index, corrupt), parents)

\* Ok(Event::End(_)), lines 53-56; the tokenizer yields End only for a tag
\* that is open
EndEv(ev) ==
    /\ ev.kind = "End"
    /\ Depth(document, pos) > 0
    /\ Reads(ev)
    /\ IF stack = <<>> THEN Fails(Panic, Model(id_index, corrupt))
       ELSE Popped(stack[Len(stack)], SubSeq(stack, 1, Len(stack) - 1))
    /\ UNCHANGED nsvars

\* Ok(Event::Text(ev)), lines 57-79
TextEv(ev) ==
    /\ ev.kind = "Text"
    /\ Reads(ev)
    /\ IF is_blank(ev) THEN UNCHANGED <<outcome, stack, id_index, corrupt>>
       ELSE IF stack = <<>> THEN Fails(Err("ValueError"), Model(id_index, corrupt))
       ELSE IF stack[Len(stack)].elm.kind = "ModelElement"
       THEN Fails(Err("ValueError"), Model(id_index, corrupt))
       ELSE IF decode(ev).tag # "ok" THEN Fails(decode(ev), Model(id_index, corrupt))
       ELSE /\ stack' = [stack EXCEPT ![Len(stack)].elm.text = Some(decode(ev).val)]
            /\ UNCHANGED <<outcome, id_index, corrupt>>
    /\ UNCHANGED nsvars

\* Ok(Event::CData(_)), line 80, and Ok(Event::GeneralRef(_)), lines 81-82
CDataEv(ev) ==
    /\ ev.kind = "CData"
    /\ Reads(ev)
    /\ Fails(Panic, Model(id_index, corrupt))
    /\ UNCHANGED nsvars

GeneralRefEv(ev) ==
    /\ ev.kind = "GeneralRef"
    /\ Reads(ev)
    /\ Fails(Panic, Model(id_index, corrupt))
    /\ UNCHANGED nsvars

\* Comment, DocType, Decl and PI, lines 83-86
IgnoredEv(ev) ==
    /\ ev.kind \in Ignored
    /\ Reads(ev)
    /\ UNCHANGED <<outcome, stack, id_index, corrupt>>
    /\ UNCHANGED nsvars

\* parse_from_resources has been entered by NativeLoader::__new__ (model.rs
\* lines 73-80); one Namespace with the alias "n" is registered
\* model.rs lines 63-68: the suffix of the entrypoint, as getattr and extract
\* give it, is ".aird"
AIRD == <<".", "a", "i", "r", "d">>
valid_suffix_any(suffix) == TRUE
valid_suffix(suffix) == suffix.tag = "ok" /\ suffix.val = AIRD

\* the name under which the loader keeps the file handler, model.rs line 71
NUL == "\\x00"
PyDict_new == [k \in {} |-> None]

\* what the Python side gives: the entrypoint derived from the path (or the
\* error raised by derive_entrypoint), and the file opened by the handler
\* (or the error raised by its open method)
Entrypoint(name, suffix) == [name |-> name, suffix |-> suffix]
Entrypoints ==
    {Entrypoint(<<"m">> \o sfx, Ok(sfx)) :
         sfx \in {AIRD, <<".", "c", "a", "p", "e", "l", "l", "a">>, <<>>,
                  <<".", "A", "I", "R", "D">>, AIRD \o <<"x">>}}
        \cup {Entrypoint(<<"m">>, Err("AttributeError"))}
Derived ==
    {Ok([filehandler |-> "filehandler", entrypoint |-> e]) : e \in Entrypoints}
        \cup {Err("TypeError")}
OpenReplies == {Ok("file"), Err("FileNotFoundError")}

\* PyReader::open, reply being what the handler's open method does
PyReader_open_any(resources_, resname, filename, reply) == reply
PyReader_open(resources_, resname, filename, reply) ==
    IF resname \notin DOMAIN resources_
    THEN [tag |-> "MissingResourceError", val |-> resname]
    ELSE reply

\* PyReader::open, line 200: the call of the handler's open method
Opens(resources_, resname, filename) ==
    IF resname \in DOMAIN resources_
    THEN <<[handler |-> resources_[resname], filename |-> filename.name, mode |-> "rb"]>>
    ELSE <<>>

Loading ==
    /\ namespaces = [i \in NsIds |->
                        IF i = 1
                        THEN Some(NewNamespace(StaticUri, <<"n">>, None, None, 1))
                        ELSE None]
    /\ calls = <<>>
    /\ res = Result("init", 0, None, "ok", None)
    /\ pos = 0
    /\ outcome = "running"
    /\ stack = <<>>
    /\ id_index = HashMap_new
    /\ corrupt = FALSE
    /\ entrypoint = Some(Entrypoint(<<"m">> \o AIRD, Ok(AIRD)))
    /\ resources = insert(PyDict_new, NUL, "filehandler")
    /\ opened = Opens(resources, NUL, Unwrap(entrypoint))
    /\ buf = <<>>
    /\ NoData

\* the events come as the tokenizer finds them
InitLoad == Loading /\ document = <<>>

NextLoad ==
    \/ \E ev \in Events :
           \/ ErrEv(ev)
           \/ StartEv(ev)
           \/ EmptyEv(ev)
           \/ EndEv(ev)
           \/ TextEv(ev)
           \/ CDataEv(ev)
           \/ GeneralRefEv(ev)
           \/ IgnoredEv(ev)
    \/ EofEv

SpecLoad == InitLoad /\ [][NextLoad]_vars

----------------------------------------------------------------------------
(* Loads of whole documents: the events are fixed before the load begins *)

PlainA == <<<<"a">>, NoAttrs>>
TypedA1 == <<<<"a">>, Typed1Attrs>>
TypedB1 == <<<<"b">>, Typed1Attrs>>
TypedB2 == <<<<"b">>, Typed2Attrs>>

DocEvents ==
    {Event(kind, e[1], e[2], <<>>, TRUE) :
         kind \in {"Start", "Empty"}, e \in {PlainA, TypedA1, TypedB1, TypedB2}}
        \cup {Event("Text", <<>>, <<>>, <<"t">>, TRUE)}
        \cup {Bare(kind) : kind \in {"End", "Err", "CData", "GeneralRef", "Comment"}}

\* the documents of MaxEvents events in which every End closes an open tag
Documents ==
    {doc \in [1 .. MaxEvents -> DocEvents] :
        \A n \in 1 .. MaxEvents : doc[n].kind = "End" => Depth(doc, n - 1) > 0}

InitDoc == Loading /\ document \in Documents

SpecDoc == InitDoc /\ [][NextLoad]_vars

----------------------------------------------------------------------------
(* Properties of the load *)

\* the values the element of event e gives to the attribute key
ValuesOf(e, key) == {e.attrs[k].value : k \in {k \in 1 .. Len(e.attrs) : e.attrs[k].key = key}}

\* e starts an element that names its class as alias:Class, the alias being
\* that of a registered Namespace, and that has an identifier
IsTypedElement(e) ==
    /\ e.kind \in {"Start", "Empty"}
    /\ \E t \in ValuesOf(e, XSI_TYPE) :
           /\ contains(t, <<":">>)
           /\ \E i \in NsIds : Constructed(i) /\ starts_with(t, Ns(i).alias \o <<":">>)
    /\ ValuesOf(e, UUID) # {}

IdOf(e) == CHOOSE id \in ValuesOf(e, UUID) : TRUE

\* the events at which a typed element repeats the identifier of an earlier one
Repeats(doc) ==
    {j \in 1 .. Len(doc) :
        /\ IsTypedElement(doc[j])
        /\ \E i \in 1 .. (j - 1) : IsTypedElement(doc[i]) /\ IdOf(doc[i]) = IdOf(doc[j])}

\* the load was ended by the event it read last, an error or a panic
Aborted == outcome \notin {"new", "running", "Ok"}

\* C13: loading a document in which two typed elements carry the same
\* identifier is not aborted by either of them; once the later one is read
\* the id index maps the identifier to it and the corruption flag is set.
C13_DuplicateIdCompletes ==
    Repeats(document) # {} =>
        /\ (Aborted /\ pos > 0) => ~IsTypedElement(document[pos])
        /\ \A j \in Repeats(document) :
               (pos >= j /\ \A k \in (j + 1) .. pos : ~IsTypedElement(document[k])) =>
                   /\ IdOf(document[j]) \in DOMAIN id_index
                   /\ id_index[IdOf(document[j])].oid = j
                   /\ corrupt

RECURSIVE OpenStarts(_, _)
OpenStarts(doc, n) ==
    IF n = 0 THEN <<>>
    ELSE LET open == OpenStarts(doc, n - 1)
         IN  IF doc[n].kind = "Start" THEN Append(open, n)
             ELSE IF doc[n].kind = "End" /\ open # <<>>
             THEN SubSeq(open, 1, Len(open) - 1)
             ELSE open

\* e starts an element that has no prefix in its name nor in its attributes
IsPlainElement(e) ==
    /\ e.kind \in {"Start", "Empty"}
    /\ ~contains(e.name, <<":">>)
    /\ \A k \in 1 .. Len(e.attrs) : ~contains(e.attrs[k].key, <<":">>)

\* the event read last
Last == document[pos]

\* C15: a load whose events end while an element is open fails; no load
\* returns success with a frame on the stack.
C15_UnclosedAtEofFails ==
    /\ (outcome # "running" /\ Depth(document, pos) > 0) => Aborted
    /\ outcome = "Ok" => stack = <<>>

\* C16: after every event the stack holds the frames of the elements started
\* and not ended, outermost first: Start pushes the frame it builds, Empty
\* builds a frame and finishes it and leaves the stack as it was, End pops the
\* top frame and finishes it; the load goes on after each of them.
C16_StackDiscipline ==
    /\ ~Aborted =>
           /\ Len(stack) = Len(OpenStarts(document, pos))
           /\ \A k \in 1 .. Len(stack) :
                  stack[k].elm.oid = OpenStarts(document, pos)[k]
    /\ (pos > 0 /\ (Last.kind = "End" \/ IsPlainElement(Last))) => ~Aborted

\* C17: finishing an element completes normally and appends the element to
\* the child collection of its parent, the frame then on top of the stack.
C17_FinishAppendsChild ==
    (pos > 0 /\ Last.kind = "End") =>
        /\ outcome # "panic"
        /\ stack # <<>> =>
               LET children == stack[Len(stack)].elm.children
                   closed == OpenStarts(document, pos - 1)
               IN  /\ children # <<>>
                   /\ children[Len(children)].oid = closed[Len(closed)]

\* XMLElement::get_tag, __len__, __getitem__, get, keys and items
get_tag(elm) ==
    IF IsSome(elm.tag[1])
    THEN <<"{">> \o Unwrap(elm.tag[1]) \o <<"}">> \o elm.tag[2]
    ELSE elm.tag[2]
len(elm) == Len(elm.children)
getitem(elm, idx) ==
    IF idx < Len(elm.children) THEN Ok(elm.children[idx + 1]) ELSE Err("IndexError")
get(elm, k, fallback) ==
    IF k \in DOMAIN elm.attributes THEN Some(elm.attributes[k]) ELSE fallback
keys(elm) == DOMAIN elm.attributes
items(elm) == {<<k, elm.attributes[k]>> : k \in DOMAIN elm.attributes}

\* the attributes of event e as pairs of name and value
Pairs(e) == {<<e.attrs[k].key, e.attrs[k].value>> : k \in 1 .. Len(e.attrs)}

\* the plain attributes of event e: those whose name has no prefix
PlainPairs(e) == {p \in Pairs(e) : ~contains(p[1], <<":">>)}

\* e has its class named by an xsi:type attribute
HasDiscriminant(e) == ValuesOf(e, XSI_TYPE) # {}

\* C18: every element is built as exactly one of typed and foreign: typed if
\* and only if it has a type discriminant (xsi:type); the discriminant is
\* not among the stored attributes, and every plain attribute is stored
\* under its name with its value.
C18_TypedOrForeign ==
    (/\ pos > 0
     /\ Last.kind = "Start"
     /\ ~contains(Last.name, <<":">>)
     /\ IsTypedElement(Last) \/ IsPlainElement(Last)) =>
        /\ ~Aborted
        /\ LET elm == stack[Len(stack)].elm
           IN  /\ elm.kind = (IF HasDiscriminant(Last)
                              THEN "ModelElement" ELSE "XMLElement")
               /\ XSI_TYPE \notin DOMAIN elm.attributes
               /\ \A p \in PlainPairs(Last) :
                      p[1] \in DOMAIN elm.attributes /\ elm.attributes[p[1]] = p[2]
               /\ DOMAIN elm.attributes = {p[1] : p \in PlainPairs(Last)}

\* text is made of whitespace only
AllWhitespace(text) == \A k \in 1 .. Len(text) : text[k] \in {" ", "\n", "\t", "\r"}

\* a step that reads the text event t
ReadsText(t) == pos' = pos + 1 /\ document'[pos'] = t /\ t.kind = "Text" /\ t.valid

\* C19: a text event of whitespace only leaves the loader and the stack
\* unchanged; a text event with other characters sets the text of the element
\* on top of the stack if that is a foreign element (XMLElement), and fails
\* the load with a ValueError if it is a typed element (ModelElement).
C19_TextStep ==
    \A t \in Texts :
        ReadsText(t) =>
            IF AllWhitespace(t.text)
            THEN UNCHANGED <<outcome, stack, id_index, corrupt>>
            ELSE IF stack = <<>> THEN TRUE
            ELSE IF stack[Len(stack)].elm.kind = "XMLElement"
            THEN /\ stack' = [stack EXCEPT ![Len(stack)].elm.text = Some(t.text)]
                 /\ UNCHANGED <<outcome, id_index, corrupt>>
            ELSE /\ outcome' = "ValueError"
                 /\ UNCHANGED <<stack, id_index, corrupt>>

C19_Text == [][C19_TextStep]_vars

\* the text "u " was read inside a foreign element, after whitespace
C19_Witness ==
    /\ pos = 3
    /\ outcome = "running"
    /\ document[2].kind = "Text" /\ AllWhitespace(document[2].text)
    /\ Last.kind = "Text" /\ Last.text = <<"u", " ">>
    /\ stack # <<>>
    /\ stack[Len(stack)].elm.kind = "XMLElement"
    /\ stack[Len(stack)].elm.text = Some(<<"u", " ">>)

\* the elements, of those read, that were closed directly inside the open
\* element started by event i, in document order
ChildrenOf(doc, n, i) ==
    LET inside(j) == /\ doc[j].kind \in {"Start", "Empty"}
                     /\ OpenStarts(doc, j - 1) # <<>>
                     /\ OpenStarts(doc, j - 1)[Len(OpenStarts(doc, j - 1))] = i
        closed(j) == doc[j].kind = "Empty"
                         \/ \A k \in 1 .. Len(OpenStarts(doc, n)) : OpenStarts(doc, n)[k] # j
    IN  {j \in (i + 1) .. n : inside(j) /\ closed(j)}

\* C20: a foreign element built by the loader shows the tag, the plain
\* attributes with their values and, in document order, the children that its
\* element has in the document; closing a child does not end the load.
C20_ForeignRoundTrip ==
    /\ ~Aborted =>
           \A k \in 1 .. Len(stack) :
               LET elm == stack[k].elm
                   e == document[elm.oid]
                   cs == ChildrenOf(document, pos, elm.oid)
               IN  elm.kind = "XMLElement" =>
                       /\ get_tag(elm) = e.name
                       /\ keys(elm) = {p[1] : p \in PlainPairs(e)}
                       /\ items(elm) = PlainPairs(e)
                       /\ \A p \in PlainPairs(e) : get(elm, p[1], None) = Some(p[2])
                       /\ len(elm) = Cardinality(cs)
                       /\ \A n \in 0 .. (len(elm) - 1) :
                              /\ getitem(elm, n).tag = "ok"
                              /\ getitem(elm, n).val.oid \in cs
                              /\ Cardinality({j \in cs : j < getitem(elm, n).val.oid}) = n
    /\ (/\ pos > 1
        /\ \/ Last.kind = "End" /\ Len(OpenStarts(document, pos - 1)) > 1
           \/ /\ Last.kind = "Empty" /\ IsPlainElement(Last)
              /\ Len(OpenStarts(document, pos - 1)) > 0
        /\ \A k \in 1 .. (pos - 1) : IsPlainElement(document[k])) => ~Aborted

----------------------------------------------------------------------------
(* Text inside foreign elements: documents of MaxEvents + 1 events, as the  *)
(* tokenizer splits them (no two text events in a row)                     *)

TextEvents ==
    {Event(kind, PlainA[1], PlainA[2], <<>>, TRUE) : kind \in {"Start", "Empty"}}
        \cup {Event("Text", <<>>, <<>>, t, TRUE) : t \in {<<" ">>, <<"t">>, <<"u", " ">>}}
        \cup {Bare(kind) : kind \in {"End", "Err", "CData", "GeneralRef", "Comment"}}

TextDocuments ==
    {doc \in [1 .. MaxEvents + 1 -> TextEvents] :
        \A n \in 1 .. MaxEvents + 1 :
            /\ doc[n].kind = "End" => Depth(doc, n - 1) > 0
            /\ (n > 1 /\ doc[n].kind = "Text") => doc[n - 1].kind # "Text"}

InitText == Loading /\ document \in TextDocuments

SpecText == InitText /\ [][NextLoad]_vars

\* the texts, other than whitespace, of the text events read while the
\* element started by event i was the innermost open element
Segments(doc, n, i) ==
    {doc[j].text : j \in {j \in (i + 1) .. n :
                             /\ doc[j].kind = "Text"
                             /\ ~AllWhitespace(doc[j].text)
                             /\ OpenStarts(doc, j - 1) # <<>>
                             /\ OpenStarts(doc, j - 1)[Len(OpenStarts(doc, j - 1))] = i}}

\* C21: no text of a foreign element is lost: after each event the stored
\* text of every open foreign element contains every text segment, other
\* than whitespace, that the element has received.
C21_TextLossless ==
    ~Aborted =>
        \A k \in 1 .. Len(stack) :
            LET elm == stack[k].elm
            IN  elm.kind = "XMLElement" =>
                    \A seg \in Segments(document, pos, elm.oid) :
                        /\ IsSome(elm.text)
                        /\ contains(Unwrap(elm.text), seg)

----------------------------------------------------------------------------
(* Part 3: rust/src/model.rs, NativeLoader::__new__ and by_uuid            *)

\* the rest of __new__ once the entrypoint was accepted, lines 70-80: table
\* is the resource table after set_item, o what PyReader::open came to
Accepted(o, table, ep) ==
    /\ resources' = table
    /\ opened' = opened \o Opens(table, NUL, ep)
    /\ outcome' = IF o.tag = "ok" THEN "running" ELSE o.tag
    /\ UNCHANGED buf
    /\ UNCHANGED dtvars

\* lines 63-80, d being what derive_entrypoint gave
Derives(d, reply) ==
    /\ entrypoint' = Some(d.entrypoint)
    /\ IF ~valid_suffix(d.entrypoint.suffix)
       THEN outcome' = "ValueError" /\ UNCHANGED <<resources, opened, buf>> /\ UNCHANGED dtvars
       ELSE Accepted(PyReader_open(insert(PyDict_new, NUL, d.filehandler),
                                   NUL, d.entrypoint, reply),
                     insert(PyDict_new, NUL, d.filehandler), d.entrypoint)

\* NativeLoader::__new__ up to the loop of parse_from_resources
NativeLoader_new(d, reply) ==
    /\ outcome = "new"
    /\ IF d.tag # "ok"
       THEN outcome' = d.tag /\ UNCHANGED opvars
       ELSE Derives(d.val, reply)
    /\ UNCHANGED <<document, pos, stack, id_index, corrupt>>
    /\ UNCHANGED nsvars

\* what __new__ returns, lines 80-82: nothing yet, the Loader, or the error
NativeLoader_returned ==
    IF outcome \in {"new", "running"} THEN None
    ELSE IF outcome = "Ok" THEN Some(Ok(Model(id_index, corrupt)))
    ELSE Some(Err(outcome))

\* NativeLoader::by_uuid
by_uuid_or_default(model, uuid) ==
    IF uuid \in DOMAIN model.id_index
    THEN Ok(model.id_index[uuid])
    ELSE Ok(None)
by_uuid(model, uuid) ==
    IF uuid \in DOMAIN model.id_index
    THEN Ok(model.id_index[uuid])
    ELSE [tag |-> "KeyError", val |-> uuid]

\* the call of by_uuid has returned r
Looked(uuid, r) == res' = Result("by_uuid", 0, uuid, r.tag, r.val)

Uuids == {<<"1">>, <<"2">>}

\* a call of by_uuid on the Loader that __new__ returned
ByUuid(uuid) ==
    /\ outcome = "Ok"
    /\ Looked(uuid, by_uuid(Model(id_index, corrupt), uuid))
    /\ UNCHANGED <<namespaces, calls>>
    /\ UNCHANGED ldvars

InitOpen ==
    /\ namespaces = [i \in NsIds |->
                        IF i = 1
                        THEN Some(NewNamespace(StaticUri, <<"n">>, None, None, 1))
                        ELSE None]
    /\ calls = <<>>
    /\ res = Result("init", 0, None, "ok", None)
    /\ document = <<>>
    /\ pos = 0
    /\ outcome = "new"
    /\ stack = <<>>
    /\ id_index = HashMap_new
    /\ corrupt = FALSE
    /\ entrypoint = None
    /\ resources = PyDict_new
    /\ opened = <<>>
    /\ buf = <<>>
    /\ NoData

NextOpen ==
    \/ \E d \in Derived, reply \in OpenReplies : NativeLoader_new(d, reply)
    \/ \E ev \in DocEvents :
           \/ ErrEv(ev)
           \/ StartEv(ev)
           \/ EmptyEv(ev)
           \/ EndEv(ev)
           \/ TextEv(ev)
           \/ CDataEv(ev)
           \/ GeneralRefEv(ev)
           \/ IgnoredEv(ev)
    \/ EofEv
    \/ \E uuid \in Uuids : ByUuid(uuid)

SpecOpen == InitOpen /\ [][NextOpen]_vars

----------------------------------------------------------------------------
(* Part 4: rust/src/parse.rs, PyReader::read                               *)

MaxBuf == 2

\* what the file's read method does: it returns bytes, of any length, or
\* something that is not bytes, or raises
Bytes == {"a", "b"}
ByteStrings == UNION {[1 .. n -> Bytes] : n \in 0 .. (MaxBuf + 1)}
ReadReplies ==
    {Ok([bytes |-> TRUE, data |-> data]) : data \in ByteStrings}
        \cup {Ok([bytes |-> FALSE, data |-> <<>>]), Err("OSError")}

\* buf[..data.len()].copy_from_slice(&data), line 222
copy_from_slice(buf_, data) ==
    data \o SubSeq(buf_, Len(data) + 1, Len(buf_))

\* PyReader::read: the buffer after the call and what the call returns
Read(buf_, ret) == [buf |-> buf_, ret |-> ret]
read_unchecked(buf_, reply) ==
    IF reply.tag # "ok" THEN Read(buf_, reply)
    ELSE IF ~reply.val.bytes THEN Read(buf_, Err("TypeError"))
    ELSE Read(SubSeq(copy_from_slice(buf_, reply.val.data), 1, Len(buf_)),
              Ok(Len(reply.val.data)))
read(buf_, reply) ==
    IF reply.tag # "ok" THEN Read(buf_, reply)
    ELSE IF ~reply.val.bytes THEN Read(buf_, Err("TypeError"))
    ELSE IF Len(reply.val.data) > Len(buf_) THEN Read(buf_, Err("RuntimeError"))
    ELSE Read(copy_from_slice(buf_, reply.val.data), Ok(Len(reply.val.data)))

\* the call of read has returned r
HasRead(reply, r) ==
    /\ buf' = r.buf
    /\ res' = Result("read", 0, reply, r.ret.tag, r.ret.val)

\* a call of PyReader::read by the buffered reader
PyReader_read(reply) ==
    /\ HasRead(reply, read(buf, reply))
    /\ UNCHANGED <<namespaces, calls>>
    /\ UNCHANGED <<document, pos, outcome, stack, id_index, corrupt>>
    /\ UNCHANGED <<entrypoint, resources, opened>>
    /\ UNCHANGED dtvars

\* the buffered reader hands in a zeroed buffer of some length
InitRead ==
    /\ namespaces = [i \in NsIds |-> None]
    /\ calls = <<>>
    /\ res = Result("init", 0, None, "ok", None)
    /\ document = <<>>
    /\ pos = 0
    /\ outcome = "running"
    /\ stack = <<>>
    /\ id_index = HashMap_new
    /\ corrupt = FALSE
    /\ entrypoint = Some(Entrypoint(<<"m">> \o AIRD, Ok(AIRD)))
    /\ resources = insert(PyDict_new, NUL, "filehandler")
    /\ opened = Opens(resources, NUL, Unwrap(entrypoint))
    /\ \E n \in 0 .. MaxBuf : buf = [k \in 1 .. n |-> "0"]
    /\ NoData

NextRead == \E reply \in ReadReplies : PyReader_read(reply)

SpecRead == InitRead /\ [][NextRead]_vars

C26_ReadStep ==
    \A data \in ByteStrings :
        (/\ res'.op = "read"
         /\ res'.arg = Ok([bytes |-> TRUE, data |-> data])
         /\ <<res, buf>>' # <<res, buf>>) =>
            IF Len(data) > Len(buf)
            THEN res'.tag = "RuntimeError" /\ buf' = buf
            ELSE /\ res'.tag = "ok" /\ res'.val = Len(data)
                 /\ Len(buf') = Len(buf)
                 /\ SubSeq(buf', 1, Len(data)) = data
                 /\ SubSeq(buf', Len(data) + 1, Len(buf))
                        = SubSeq(buf, Len(data) + 1, Len(buf))

----------------------------------------------------------------------------
(* Part 5: rust/src/pytypes.rs, the storage of relations on an element     *)

MaxMade == 3

\* enum Key, and the key object() that refs() makes once
Key(kind, name) == [kind |-> kind, name |-> name]
REFS_KEY == [kind |-> "object", name |-> <<>>]

\* hash(key) succeeds: _Key defines __eq__ and no __hash__, which leaves it
\* without a hash; object() has the default one
hashable(key) == key.kind = "object"

\* PyDict::get_item and PyDict::set_item
get_item(dict, key) ==
    IF ~hashable(key) THEN Err("TypeError")
    ELSE IF key \in DOMAIN dict THEN Ok(Some(dict[key]))
    ELSE Ok(None)
set_item(dict, key, item) ==
    IF ~hashable(key) THEN Err("TypeError") ELSE Ok(insert(dict, key, item))

\* the relation descriptors of model.rs
Containment(name) == [cls |-> "Containment", name |-> name]
Association(name) == [cls |-> "Association", name |-> name]
Backref(attrs) == [cls |-> "Backref", attrs |-> attrs]
Relations ==
    {Containment(None), Association(None), Backref(<<>>), Backref(<<"a">>)}
        \cup {Containment(Some(Key("Child", n))) : n \in {<<"x">>, <<"y">>}}
        \cup {Association(Some(Key("Attribute", <<"x">>)))}

\* the threads touch nothing but the elements
OnlyData ==
    /\ UNCHANGED nsvars
    /\ UNCHANGED <<document, pos, outcome, stack, id_index, corrupt>>
    /\ UNCHANGED <<entrypoint, resources, opened, buf>>
    /\ UNCHANGED mdvars

\* thread t is in a call of data() or refs() on elm with the key
Calling(t, fn, elm, key) ==
    threads' =
        [u \in Threads |->
            IF u = t
            THEN [pc |-> "enter", fn |-> fn, elm |-> elm, key |-> key,
                  ret |-> None, out |-> None,
                  overlapped |-> {v \in Threads \ {t} : threads[v].pc # "idle"}]
            ELSE IF threads[u].pc # "idle"
            THEN [threads[u] EXCEPT !.overlapped = @ \cup {t}]
            ELSE threads[u]]

\* the descriptor fails before it touches the element
Uninitialized(t) ==
    threads' = [threads EXCEPT ![t] =
                   [Idle EXCEPT !.fn = "get", !.out = Some(Err("RuntimeError"))]]

\* Containment::get, Association::__get__ and Backref::__get__ up to the
\* call of data() or refs()
Get(t, rel, elm) ==
    /\ threads[t].pc = "idle"
    /\ IF rel.cls = "Backref"
       THEN IF Len(rel.attrs) = 0 THEN Uninitialized(t)
            ELSE Calling(t, "refs", elm, REFS_KEY)
       ELSE IF rel.name = None THEN Uninitialized(t)
            ELSE Calling(t, "data", elm, Unwrap(rel.name))
    /\ UNCHANGED <<dicts, held, made>>
    /\ OnlyData

\* with_critical_section(&dict, ...): the section of the element's dict is
\* entered
Enter(t) ==
    /\ threads[t].pc = "enter"
    /\ held[threads[t].elm] = 0
    /\ held' = [held EXCEPT ![threads[t].elm] = t]
    /\ threads' = [threads EXCEPT ![t].pc = "lookup"]
    /\ UNCHANGED <<dicts, made>>
    /\ OnlyData

\* dict.get_item(key) has come to r
Found(t, r) ==
    IF r.tag # "ok"
    THEN threads' = [threads EXCEPT ![t].pc = "leave", ![t].ret = Some(r)]
    ELSE IF IsSome(r.val)
    THEN threads' = [threads EXCEPT ![t].pc = "leave",
                                    ![t].ret = Some(Ok(Unwrap(r.val)))]
    ELSE threads' = [threads EXCEPT ![t].pc = "insert"]

Lookup(t) ==
    /\ threads[t].pc = "lookup"
    /\ Found(t, get_item(dicts[threads[t].elm], threads[t].key))
    /\ UNCHANGED <<dicts, held, made>>
    /\ OnlyData

\* the None arm: a new ElementList or Reflist, item, is put in the dict, r
\* being what set_item came to
Stored(t, item, r) ==
    /\ made' = item
    /\ IF r.tag # "ok"
       THEN /\ threads' = [threads EXCEPT ![t].pc = "leave", ![t].ret = Some(r)]
            /\ UNCHANGED dicts
       ELSE /\ threads' = [threads EXCEPT ![t].pc = "leave",
                                          ![t].ret = Some(Ok(item))]
            /\ dicts' = [dicts EXCEPT ![threads[t].elm] = r.val]

Insert(t) ==
    /\ threads[t].pc = "insert"
    /\ made < MaxMade
    /\ Stored(t, made + 1,
              set_item(dicts[threads[t].elm], threads[t].key, made + 1))
    /\ UNCHANGED held
    /\ OnlyData

\* what the descriptor's __get__ returns once data() or refs() has returned
descriptor_result(fn, ret) ==
    IF fn = "refs" /\ Unwrap(ret).tag = "ok"
    THEN Some(Err("NotImplementedError"))
    ELSE ret

\* the critical section is left and the call returns
Leave(t) ==
    /\ threads[t].pc = "leave"
    /\ held' = [held EXCEPT ![threads[t].elm] = 0]
    /\ threads' = [threads EXCEPT
                      ![t].pc = "idle",
                      ![t].out = descriptor_result(threads[t].fn, threads[t].ret)]
    /\ UNCHANGED <<dicts, made>>
    /\ OnlyData

InitData ==
    /\ namespaces = [i \in NsIds |-> None]
    /\ calls = <<>>
    /\ res = Result("init", 0, None, "ok", None)
    /\ NoLoad
    /\ buf = <<>>

NextData ==
    \E t \in Threads :
        \/ \E rel \in Relations, elm \in Objects : Get(t, rel, elm)
        \/ Enter(t)
        \/ Lookup(t)
        \/ Insert(t)
        \/ Leave(t)

SpecData == InitData /\ [][NextData]_vars

\* thread t is back from a call of data()
Back(t) == threads[t].pc = "idle" /\ threads[t].fn = "data"

\* C29: when two threads make overlapping calls for the storage of the same
\* relation key on the same element, both get a storage instance, and it is
\* the same instance for both, the one that the element holds under the key.
C29_AtomicFirstAccess ==
    \A t, u \in Threads :
        (/\ t # u
         /\ Back(t) /\ Back(u)
         /\ u \in threads[t].overlapped /\ t \in threads[u].overlapped
         /\ threads[t].elm = threads[u].elm
         /\ threads[t].key = threads[u].key) =>
            /\ Unwrap(threads[t].ret).tag = "ok"
            /\ threads[t].ret = threads[u].ret
            /\ threads[t].key \in DOMAIN dicts[threads[t].elm]
            /\ dicts[threads[t].elm][threads[t].key] = Unwrap(threads[t].ret).val

\* C30: an access to the storage of a relation on an element returns the
\* storage instance that the element holds under the key of the relation,
\* which the first access made and which stays there; the storage under
\* another key or on another element is not made or replaced by it.
C30_StorageCached ==
    /\ \A t \in Threads :
           Back(t) =>
               /\ Unwrap(threads[t].ret).tag = "ok"
               /\ threads[t].key \in DOMAIN dicts[threads[t].elm]
               /\ dicts[threads[t].elm][threads[t].key] = Unwrap(threads[t].ret).val
    /\ \A e \in Objects : \A k \in DOMAIN dicts[e] :
           \A f \in Objects : \A j \in DOMAIN dicts[f] :
               dicts[e][k] = dicts[f][j] => (e = f /\ k = j)

----------------------------------------------------------------------------
(* Properties of element building                                          *)

XSI == <<"x", "s", "i">>
XMLNS == <<"x", "m", "l", "n", "s">>

\* the attributes of the event e whose name has the prefix p, in their order
Prefixed(e, p) ==
    SelectSeq(e.attrs, LAMBDA a : prefix(a.key) = Some(p))

\* a step that reads the Start or Empty event e
ReadsElement(e) ==
    pos' = pos + 1 /\ document'[pos'] = e /\ e.kind \in {"Start", "Empty"}

\* C22: when an element has more than one schema-instance-prefixed
\* attribute, the scan of its attributes succeeds and captures the first of
\* them, in attribute order, as the type discriminant; a later one does not
\* replace it.
C22_FirstDiscriminant ==
    (/\ pos > 0
     /\ Last.kind \in {"Start", "Empty"}
     /\ Len(Prefixed(Last, XSI)) > 1
     /\ \A k \in 1 .. Len(Last.attrs) :
            prefix(Last.attrs[k].key) \in {None, Some(XSI)}) =>
        LET r == scan_attributes(Locals(HashMap_new, HashMap_new, None), Last.attrs)
        IN  /\ r.tag = "ok"
            /\ r.val.xtype = Some(Prefixed(Last, XSI)[1].value)

\* the bindings alias -> uri that the event e declares
Bindings(e) ==
    [alias \in {local_name(a.key) : a \in Range(Prefixed(e, XMLNS))} |->
        (CHOOSE a \in Range(Prefixed(e, XMLNS)) : local_name(a.key) = alias).value]

\* e has an unprefixed name and declares bindings, with distinct aliases,
\* and has no other attribute
Declares(e) ==
    /\ ~contains(e.name, <<":">>)
    /\ e.attrs # <<>>
    /\ Prefixed(e, XMLNS) = e.attrs
    /\ \A j, k \in 1 .. Len(e.attrs) :
           local_name(e.attrs[j].key) = local_name(e.attrs[k].key) => j = k

C23_BindingStep ==
    \A e \in Events :
        (ReadsElement(e) /\ e.kind = "Start" /\ Declares(e)) =>
            /\ UNCHANGED outcome
            /\ Len(stack') = Len(stack) + 1
            /\ SubSeq(stack', 1, Len(stack)) = stack
            /\ stack'[Len(stack')].namespaces = Bindings(e)

\* C23: an element that declares the bindings alias_i -> uri_i, the aliases
\* distinct, pushes a frame whose binding map is exactly these bindings, and
\* the frames already on the stack, their binding maps included, stay as
\* they were.
C23_Bindings == [][C23_BindingStep]_vars

\* the outcomes that report an unsupported feature, a todo!() included, and
\* those that report a malformed document
UnsupportedFeature == {"NotImplementedError", "panic"}
StructureError == {"ValueError", "KeyError", "AttributeError"}

OtherPrefixed(e) ==
    \E k \in 1 .. Len(e.attrs) :
        /\ IsSome(prefix(e.attrs[k].key))
        /\ prefix(e.attrs[k].key) \notin {Some(XSI), Some(XMLNS)}

Unqualified(e) ==
    /\ Prefixed(e, XSI) # <<>>
    /\ ~contains(Prefixed(e, XSI)[1].value, <<":">>)

LacksId(e) ==
    /\ Len(Prefixed(e, XSI)) = 1
    /\ ~OtherPrefixed(e)
    /\ ~Unqualified(e)
    /\ ValuesOf(e, UUID) = {}

C24_FailureStep ==
    \A e \in Events :
        ReadsElement(e) =>
            /\ (OtherPrefixed(e) \/ Unqualified(e)) =>
                   /\ outcome' \in UnsupportedFeature
                   /\ UNCHANGED <<id_index, corrupt>>
            /\ LacksId(e) =>
                   /\ outcome' \in StructureError
                   /\ UNCHANGED <<id_index, corrupt>>

\* C24: building an element fails, adds no entry to the id index and leaves
\* the corruption flag as it was, with an unsupported-feature error when an
\* attribute has a prefix that is neither the discriminant's nor a binding's
\* or when the discriminant has no ':', and with a structure error when a
\* typed element has no "uuid".
C24_BuildFailures == [][C24_FailureStep]_vars

----------------------------------------------------------------------------
(* Properties of the Loader's construction and of by_uuid                  *)

\* C25: an error raised while parsing aborts the load, __new__ returning the
\* error and no Loader; a Loader is returned only for a document that was
\* read to its end without a tokenizer error, a CDATA section, an entity
\* reference or an element left open, a duplicate identifier being the one
\* abnormal condition that a returned Loader may have met.
C25_ErrorsAbort ==
    /\ Aborted => NativeLoader_returned = Some(Err(outcome))
    /\ NativeLoader_returned = Some(Ok(Model(id_index, corrupt))) =>
           /\ pos = Len(document)
           /\ Depth(document, pos) = 0
           /\ \A k \in 1 .. pos : document[k].kind \notin {"Err", "CData", "GeneralRef"}

\* some resource tables and resource names
ResNames == {NUL, "lib"}
ResourceTables == UNION {[names -> {"filehandler"}] : names \in SUBSET ResNames}

\* C27: when the extension of the entrypoint is not ".aird", constructing
\* the Loader fails with ValueError, and no resource was opened and no event
\* read; opening a resource name that the resource table does not have
\* fails with MissingResourceError carrying that name, without calling any
\* handler.
C27_OpenChecks ==
    /\ (IsSome(entrypoint) /\ Unwrap(entrypoint).suffix # Ok(AIRD)) =>
           /\ outcome = "ValueError"
           /\ NativeLoader_returned = Some(Err("ValueError"))
           /\ opened = <<>>
           /\ resources = PyDict_new
           /\ pos = 0 /\ document = <<>>
    /\ \A table \in ResourceTables, resname \in ResNames,
          ep \in Entrypoints, reply \in OpenReplies :
           resname \notin DOMAIN table =>
               /\ PyReader_open(table, resname, ep, reply)
                      = [tag |-> "MissingResourceError", val |-> resname]
               /\ Opens(table, resname, ep) = <<>>

\* an entrypoint named "m.capella" was refused
C27_Witness ==
    /\ IsSome(entrypoint)
    /\ Unwrap(entrypoint).suffix = Ok(<<".", "c", "a", "p", "e", "l", "l", "a">>)
    /\ outcome = "ValueError"
    /\ opened = <<>>

\* typed elements as the index would hold them, and indexes in which every
\* key is the identifier of the element under it
IndexedElements ==
    {[kind |-> "ModelElement", oid |-> oid,
      attributes |-> [k \in {UUID} |-> uuid]] : oid \in 1 .. 2, uuid \in Uuids}
KeyedById(index) ==
    \A k \in DOMAIN index : ModelElement_id(index[k]) = Ok(k)
Indexes ==
    {index \in UNION {[ids -> IndexedElements] : ids \in SUBSET Uuids} :
        KeyedById(index)}

C28_LookupStep ==
    /\ \A uuid \in Uuids :
           (outcome = "Ok" /\ res' # res /\ res'.op = "by_uuid" /\ res'.arg = uuid) =>
               /\ IF uuid \in DOMAIN id_index
                  THEN res'.tag = "ok" /\ res'.val = id_index[uuid]
                  ELSE res'.tag = "KeyError"
               /\ UNCHANGED <<id_index, corrupt>>
    /\ KeyedById(id_index) /\ KeyedById(id_index')
    /\ \A index \in Indexes, flag \in BOOLEAN, uuid \in Uuids :
           /\ by_uuid(Model(index, flag), uuid).tag
                  = (IF uuid \in DOMAIN index THEN "ok" ELSE "KeyError")
           /\ uuid \in DOMAIN index =>
                  by_uuid(Model(index, flag), uuid).val = index[uuid]
           /\ \A elm \in IndexedElements :
                  KeyedById(index_entry(Model(index, flag),
                                        ModelElement_id(elm).val, elm).id_index)

\* C28: by_uuid returns the element stored under the identifier when the
\* index has it as a key and fails with KeyError otherwise, and changes
\* neither the index nor the corruption flag; every key of the index is the
\* identifier of the element stored under it.
C28_ById == [][C28_LookupStep]_vars

\* by_uuid did not find "1" on the Loader of a document that was read
C28_Witness ==
    /\ outcome = "Ok"
    /\ pos > 0
    /\ res.op = "by_uuid" /\ res.arg = <<"1">>
    /\ res.tag = "KeyError" /\ res.val = <<"1">>
    /\ id_index = HashMap_new

----------------------------------------------------------------------------
(* One Namespace, registrations that fail included                         *)

\* Namespace::__contains__
contains_key(ns, clsname) == clsname \in DOMAIN ns.classes

Contains(i, clsname) ==
    /\ UNCHANGED ldvars
    /\ Constructed(i)
    /\ res' = Result("contains", i, clsname, "ok", contains_key(Ns(i), clsname))
    /\ UNCHANGED <<namespaces, calls>>

\* (minver, maxver) arguments of register(), some of which do not parse
BadVersion == <<"1", ".", "x">>
RegisterArgs ==
    RangeArgs \cup {<<Some(BadVersion), None>>, <<Some(V1_0), Some(BadVersion)>>}

InitReg ==
    /\ NoLoad
    /\ namespaces = [i \in NsIds |-> Some(NewNamespace(StaticUri, <<"a">>, None, None, 1))]
    /\ calls = <<>>
    /\ res = Result("init", 0, None, "ok", None)

NextReg ==
    \/ \E cls \in Classes, r \in RegisterArgs : Register(1, cls, r[1], r[2])
    \/ \E clsname \in ClassNames, version \in LookupVersions :
           GetClass(1, clsname, version)
    \/ \E clsname \in ClassNames : Contains(1, clsname)

SpecReg == InitReg /\ [][NextReg]_vars

\* C38: after any sequence of register calls, failed ones included, a name
\* is in the namespace (__contains__) if and only if at least one entry is
\* registered under it, and a register call that fails leaves the class
\* table as it was.
C38_ContainsIffRegistered ==
    /\ \A n \in ClassNames :
           contains_key(Ns(1), n) <=> Len(Registered(1, n)) > 0
    /\ (res.op = "contains" /\ res.val) => Len(Registered(1, res.arg)) > 0

\* the position, among the entries es, of the entry that get_class is to
\* return for the version: the first registered of the candidates with the
\* greatest min_version
Candidates(es, version) ==
    {k \in 1 .. Len(es) : version = None \/ CoversVersion(es[k], Unwrap(version))}
FirstBest(es, version) ==
    CHOOSE k \in Candidates(es, version) :
        \A j \in Candidates(es, version) :
            \/ VersionCmp(es[j].minver, es[k].minver) < 0
            \/ VersionCmp(es[j].minver, es[k].minver) = 0 /\ k <= j

C39_LookupStep ==
    res'.op = "get_class" =>
        /\ namespaces' = namespaces
        /\ calls' = calls
        /\ res'.tag = "ok" =>
               LET es == EntriesAsked(calls, res'.ns, res'.arg.clsname)
               IN  /\ Candidates(es, res'.arg.version) # {}
                   /\ res'.val = es[FirstBest(es, res'.arg.version)].cls

\* C39: get_class only reads: it leaves the class table as it was, what it
\* returns is fixed by the table and the arguments, and of several covering
\* candidates with the same min_version it returns the one registered first.
C39_GetClassReadOnly == [][C39_LookupStep]_vars

\* two classes were registered for "X" with the same min_version, and the
\* lookup returned the one that was registered first
C39_Witness ==
    /\ res.op = "get_class" /\ res.tag = "ok"
    /\ Len(Registered(1, res.arg.clsname)) >= 2
    /\ Registered(1, res.arg.clsname)[1].minver = Registered(1, res.arg.clsname)[2].minver
    /\ Registered(1, res.arg.clsname)[1].cls # Registered(1, res.arg.clsname)[2].cls
    /\ Registered(1, res.arg.clsname)[1].maxver = None
    /\ Registered(1, res.arg.clsname)[2].maxver = None
    /\ \A k \in 1 .. Len(Registered(1, res.arg.clsname)) :
           VersionCmp(Registered(1, res.arg.clsname)[k].minver,
                      Registered(1, res.arg.clsname)[1].minver) <= 0
    /\ res.val = Registered(1, res.arg.clsname)[1].cls

----------------------------------------------------------------------------
(* The frame stack at End and at text outside every element                *)

C40_PopStep ==
    \A e \in Events :
        (pos' = pos + 1 /\ document'[pos'] = e) =>
            /\ e.kind = "End" =>
                   /\ stack # <<>>
                   /\ outcome' # "ValueError"
                   /\ stack' = SubSeq(stack, 1, Len(stack) - 1)
            /\ (/\ e.kind = "Text"
                /\ ~(e.valid /\ AllWhitespace(e.text))
                /\ stack = <<>>) =>
                   /\ outcome' = "ValueError"
                   /\ UNCHANGED <<stack, id_index, corrupt>>

\* C40: whenever the loop handles an End event the frame stack holds a
\* frame, which is the one popped; text other than whitespace that comes
\* while the stack is empty ends the load with a ValueError and is attached
\* to nothing.
C40_NoEmptyPop == [][C40_PopStep]_vars

\* the element opened by the first event was popped at the End event
C40_Witness ==
    /\ pos = 2
    /\ document[1].kind = "Start" /\ IsPlainElement(document[1])
    /\ Last.kind = "End"
    /\ stack = <<>>
    /\ outcome = "panic"

----------------------------------------------------------------------------
(* The StringCache and the strings of the XMLElements (parse.rs).          *)
(*                                                                         *)
(* An Arc<str> is modelled by its position in `arcs`, the sequence of all  *)
(* the string allocations made so far: two Arcs are the same storage iff   *)
(* their positions are equal, and arcs[a] is the text the Arc holds.       *)

MaxElems == 3
TagNames == {<<"a">>, <<"b">>}
\* the unprefixed attributes of one start tag, in the order the map yields them
KeyLists == {<<>>, <<<<"k">>>>, <<<<"k">>, <<"m">>>>}

\* Arc::from(s): a new allocation holding s
Arc_from(store, s) == [arcs |-> Append(store, s), arc |-> Len(store) + 1]

\* one allocation for each string of ks, in order
RECURSIVE Arcs_from(_, _)
Arcs_from(store, ks) ==
    IF ks = <<>>
    THEN [arcs |-> store, keys |-> {}]
    ELSE LET a == Arc_from(store, Head(ks))
             r == Arcs_from(a.arcs, Tail(ks))
         IN  [arcs |-> r.arcs, keys |-> {a.arc} \cup r.keys]

\* StringCache::dedup: the Arc the cache holds for s, made on the first call
dedup(cache, store, s) ==
    IF s \in DOMAIN cache
    THEN [cache |-> cache, arcs |-> store, arc |-> cache[s]]
    ELSE [cache |-> insert(cache, s, Len(store) + 1),
          arcs |-> Append(store, s), arc |-> Len(store) + 1]

\* parse_element for a start tag without xsi:type, prefix and xmlns
\* attributes: the XMLElement it builds
Interns(name, ks) ==
    /\ Len(elems) < MaxElems
    /\ LET localname == dedup(string_cache, arcs, name)
           attributes == Arcs_from(localname.arcs, ks)
       IN  /\ string_cache' = localname.cache
           /\ arcs' = attributes.arcs
           /\ elems' = Append(elems, [tag |-> localname.arc,
                                      attributes |-> attributes.keys])
    /\ UNCHANGED nsvars
    /\ UNCHANGED <<document, pos, outcome, stack, id_index, corrupt>>
    /\ UNCHANGED <<entrypoint, resources, opened, buf>>
    /\ UNCHANGED <<dicts, threads, held, made, inner, types, relations>>

InitIntern ==
    /\ namespaces = [i \in NsIds |-> None]
    /\ calls = <<>>
    /\ res = Result("init", 0, None, "ok", None)
    /\ NoLoad

NextIntern == \E name \in TagNames, ks \in KeyLists : Interns(name, ks)

SpecIntern == InitIntern /\ [][NextIntern]_vars

\* the tag names given to the cache so far
Given == {arcs[elems[i].tag] : i \in DOMAIN elems}

\* C34: two occurrences of the same tag name, and two occurrences of the
\* same attribute key, are one stored string, and the cache holds exactly
\* one entry for each distinct string it was given.
C34_Interned ==
    /\ \A i, j \in DOMAIN elems :
           arcs[elems[i].tag] = arcs[elems[j].tag]
               => elems[i].tag = elems[j].tag
    /\ \A i, j \in DOMAIN elems :
           \A a \in elems[i].attributes, b \in elems[j].attributes :
               arcs[a] = arcs[b] => a = b
    /\ DOMAIN string_cache = Given
    /\ \A s \in DOMAIN string_cache : arcs[string_cache[s]] = s

----------------------------------------------------------------------------
(* ElementList (model.rs): a Vec<ModelElement>.  An element is the Python  *)
(* object it points at; `is` compares the objects.                         *)

MaxLen == 3
MaxOther == 2
usize_MAX == 2147483647
\* the Vecs of at most n elements
RECURSIVE Vecs(_)
Vecs(n) ==
    IF n = 0 THEN {<<>>}
    ELSE LET shorter == Vecs(n - 1)
         IN  shorter \cup {Append(v, e) : v \in shorter, e \in Objects}
ElementLists == Vecs(MaxLen)
\* the arguments of __getitem__: an isize, or something that is none
Indices == {Some(i) : i \in -(MaxLen + 1) .. MaxLen + 1} \cup {None}
\* the arguments of __eq__: what an iterable yields, or no iterable at all
Others == {Some(v) : v \in Vecs(MaxOther)} \cup {None}
Starts == 0 .. MaxLen
Stops == (0 .. MaxLen) \cup {usize_MAX}

\* Vec::get: the element at the 0-based position, if there is one
Vec_get(v, i) == IF i >= 0 /\ i < Len(v) THEN Some(v[i + 1]) ELSE None

\* Iterator::zip: pairs as long as both sides yield
zip(left, right) ==
    [k \in 1 .. (IF Len(left) <= Len(right) THEN Len(left) ELSE Len(right))
        |-> <<left[k], right[k]>>]

\* ElementList::__eq__
ElementList_eq(v, other) ==
    IF other = None THEN [tag |-> "NotImplemented", val |-> None]
    ELSE LET pairs == zip(v, other[1])
         IN  IF \E k \in DOMAIN pairs : pairs[k][1] # pairs[k][2]
             THEN [tag |-> "ok", val |-> Some(FALSE)]
             ELSE [tag |-> "ok", val |-> Some(TRUE)]

\* ElementList::__getitem__
ElementList_getitem(v, idx) ==
    IF idx = None THEN [tag |-> "NotImplementedError", val |-> None]
    ELSE LET i == IF idx[1] >= 0 THEN idx[1] ELSE idx[1] + Len(v)
         IN  IF i > 0 /\ Vec_get(v, i) # None
             THEN [tag |-> "ok", val |-> Vec_get(v, i)]
             ELSE [tag |-> "IndexError", val |-> None]

\* ElementList::__contains__
ElementList_contains(v, needle) == \E k \in DOMAIN v : v[k] = needle

\* ElementList::count: filter, then count
RECURSIVE ElementList_count(_, _)
ElementList_count(v, value) ==
    IF v = <<>> THEN 0
    ELSE (IF Head(v) = value THEN 1 ELSE 0) + ElementList_count(Tail(v), value)

\* Iterator::enumerate, take and skip on (position, element) pairs
enumerate(v) == [k \in DOMAIN v |-> <<k - 1, v[k]>>]
take(it, n) == IF n >= Len(it) THEN it ELSE SubSeq(it, 1, n)
skip(it, n) == IF n >= Len(it) THEN <<>> ELSE SubSeq(it, n + 1, Len(it))
\* Iterator::find_map with |(i, elem)| value.is(elem).then_some(i)
RECURSIVE find_map(_, _)
find_map(it, value) ==
    IF it = <<>> THEN None
    ELSE IF Head(it)[2] = value THEN Some(Head(it)[1])
    ELSE find_map(Tail(it), value)

\* ElementList::index without the take(stop)
ElementList_index_unstopped(v, value, start, stop) ==
    LET found == find_map(skip(enumerate(v), start), value)
    IN  IF found = None THEN [tag |-> "ValueError", val |-> None]
        ELSE [tag |-> "ok", val |-> found]

\* ElementList::index
ElementList_index(v, value, start, stop) ==
    LET found == find_map(skip(take(enumerate(v), stop), start), value)
    IN  IF found = None THEN [tag |-> "ValueError", val |-> None]
        ELSE [tag |-> "ok", val |-> found]

\* ElementList::reverse
reverse(v) == [k \in DOMAIN v |-> v[Len(v) + 1 - k]]

\* a call on the list touches nothing but the list
OnlyList ==
    /\ UNCHANGED <<namespaces, calls>>
    /\ UNCHANGED <<document, pos, outcome, stack, id_index, corrupt>>
    /\ UNCHANGED <<entrypoint, resources, opened, buf>>
    /\ UNCHANGED <<dicts, threads, held, made>>
    /\ UNCHANGED <<string_cache, arcs, elems, types, relations>>

GetItem(idx) ==
    /\ LET r == ElementList_getitem(inner, idx)
       IN  res' = Result("__getitem__", 0, idx, r.tag, r.val)
    /\ UNCHANGED inner
    /\ OnlyList

Eq(other) ==
    /\ LET r == ElementList_eq(inner, other)
       IN  res' = Result("__eq__", 0, other, r.tag, r.val)
    /\ UNCHANGED inner
    /\ OnlyList

ContainsElement(needle) ==
    /\ res' = Result("__contains__", 0, <<needle>>, "ok",
                     Some(ElementList_contains(inner, needle)))
    /\ UNCHANGED inner
    /\ OnlyList

Count(value) ==
    /\ res' = Result("count", 0, <<value>>, "ok",
                     Some(ElementList_count(inner, value)))
    /\ UNCHANGED inner
    /\ OnlyList

Index(value, start, stop) ==
    /\ LET r == ElementList_index(inner, value, start, stop)
       IN  res' = Result("index", 0, <<value, start, stop>>, r.tag, r.val)
    /\ UNCHANGED inner
    /\ OnlyList

Reverse ==
    /\ inner' = reverse(inner)
    /\ res' = Result("reverse", 0, None, "ok", None)
    /\ OnlyList

InitList ==
    /\ namespaces = [i \in NsIds |-> None]
    /\ calls = <<>>
    /\ res = Result("init", 0, None, "ok", None)
    /\ document = <<>>
    /\ pos = 0
    /\ outcome = "running"
    /\ stack = <<>>
    /\ id_index = [k \in {} |-> None]
    /\ corrupt = FALSE
    /\ entrypoint = <<>>
    /\ resources = [k \in {} |-> <<>>]
    /\ opened = <<>>
    /\ buf = <<>>
    /\ dicts = [e \in Objects |-> [k \in {} |-> <<>>]]
    /\ threads = [t \in Threads |-> Idle]
    /\ held = [e \in Objects |-> 0]
    /\ made = 0
    /\ string_cache = [s \in {} |-> 0]
    /\ arcs = <<>>
    /\ elems = <<>>
    /\ types = <<>>
    /\ relations = <<>>
    /\ inner \in ElementLists

NextList ==
    \/ \E idx \in Indices : GetItem(idx)
    \/ \E other \in Others : Eq(other)
    \/ \E needle \in Objects : ContainsElement(needle)
    \/ \E value \in Objects : Count(value)
    \/ \E value \in Objects, start \in Starts, stop \in Stops :
           Index(value, start, stop)
    \/ Reverse

SpecList == InitList /\ [][NextList]_vars

\* C35: __getitem__(i) returns the element at position i for 0 <= i < len,
\* the element at position len + i for -len <= i < 0, and fails with
\* IndexError for every other integer; the list is left as it was.
C35_GetItemStep ==
    res'.op = "__getitem__" /\ res'.arg # None /\ GetItem(res'.arg) =>
        LET i == res'.arg[1]
        IN  /\ inner' = inner
            /\ IF 0 <= i /\ i < Len(inner)
               THEN res'.tag = "ok" /\ res'.val = Some(inner[i + 1])
               ELSE IF -Len(inner) <= i /\ i < 0
               THEN res'.tag = "ok" /\ res'.val = Some(inner[Len(inner) + i + 1])
               ELSE res'.tag = "IndexError"
C36_EqStep ==
    res'.op = "__eq__" /\ res'.arg # None /\ Eq(res'.arg) =>
        LET other == res'.arg
        IN  ((res'.val = Some(TRUE)) <=>
                /\ Len(other[1]) = Len(inner)
                /\ \A k \in DOMAIN inner : other[1][k] = inner[k])
Positions(v, value, start, stop) ==
    {i \in 0 .. Len(v) - 1 : start <= i /\ i < stop /\ v[i + 1] = value}

\* C37: index(value, start, stop) returns the smallest position i with
\* start <= i < min(stop, len) that holds the object value and fails with
\* ValueError when there is none; count(value) is the number of positions
\* holding the object; __contains__(value) is true exactly when that number
\* is positive; none of the three changes the list.
C37_SearchStep ==
    /\ res'.op = "index" /\ Index(res'.arg[1], res'.arg[2], res'.arg[3]) =>
               LET ps == Positions(inner, res'.arg[1], res'.arg[2], res'.arg[3])
               IN  /\ inner' = inner
                   /\ IF ps = {} THEN res'.tag = "ValueError"
                      ELSE /\ res'.tag = "ok"
                           /\ res'.val[1] \in ps
                           /\ \A i \in ps : res'.val[1] <= i
    /\ res'.op = "count" /\ Count(res'.arg[1]) =>
               /\ inner' = inner
               /\ res'.val =
                      Some(Cardinality({k \in DOMAIN inner :
                                            inner[k] = res'.arg[1]}))
    /\ res'.op = "__contains__" /\ ContainsElement(res'.arg[1]) =>
               /\ inner' = inner
               /\ res'.val = Some(ElementList_count(inner, res'.arg[1]) > 0)
C37_Search == [][C37_SearchStep]_vars

\* index has passed over an earlier position of the object because of start,
\* in a list that holds the object behind stop as well
C37_Witness ==
    /\ res.op = "index"
    /\ res.tag = "ok"
    /\ res.arg[2] > 0
    /\ res.arg[3] < Len(inner)
    /\ res.val[1] >= res.arg[2]
    /\ \E k \in DOMAIN inner : k - 1 < res.arg[2] /\ inner[k] = res.arg[1]
    /\ \E k \in DOMAIN inner : k - 1 >= res.arg[3] /\ inner[k] = res.arg[1]

----------------------------------------------------------------------------
(* Backref::__set__ and Backref::__delete__ (model.rs)                     *)

Backrefs == {rel \in Relations : rel.cls = "Backref"}

\* Backref::__set__, with the value stored in the element's dict
Backref_set_stored(data, value) ==
    [tag |-> "ok", data |-> insert(data, REFS_KEY, value)]

\* Backref::__set__: the outcome and the element's dict after the call
Backref_set(data, value) == [tag |-> "TypeError", data |-> data]

\* Backref::__delete__
Backref_delete(data) == [tag |-> "TypeError", data |-> data]

\* the call of fn on elm has returned r to thread t
Returned(t, fn, elm, r) ==
    /\ threads' = [threads EXCEPT ![t] =
                      [Idle EXCEPT !.fn = fn, !.elm = elm,
                                   !.out = Some([tag |-> r.tag, val |-> None])]]
    /\ dicts' = [dicts EXCEPT ![elm] = r.data]

BackrefSet(t, rel, elm, value) ==
    /\ threads[t].pc = "idle"
    /\ rel \in Backrefs
    /\ Returned(t, "set", elm, Backref_set(dicts[elm], value))
    /\ UNCHANGED <<held, made>>
    /\ OnlyData

BackrefDelete(t, rel, elm) ==
    /\ threads[t].pc = "idle"
    /\ rel \in Backrefs
    /\ Returned(t, "delete", elm, Backref_delete(dicts[elm]))
    /\ UNCHANGED <<held, made>>
    /\ OnlyData

\* the threads that call the descriptors
Callers == {1, 2}

NextBackref ==
    \E t \in Callers :
        \/ \E rel \in Backrefs, elm \in Objects : Get(t, rel, elm)
        \/ Enter(t)
        \/ Lookup(t)
        \/ Insert(t)
        \/ Leave(t)
        \/ \E rel \in Backrefs, elm \in Objects, value \in Objects :
               BackrefSet(t, rel, elm, value)
        \/ \E rel \in Backrefs, elm \in Objects : BackrefDelete(t, rel, elm)

SpecBackref == InitData /\ [][NextBackref]_vars

\* C33: assigning to a Backref and deleting it fail with an error, for every
\* element and every value, and leave the stored relation data of every
\* element as it was.
C33_MutationStep ==
    \A t \in Threads :
        threads'[t] # threads[t] /\ threads'[t].fn \in {"set", "delete"} =>
            /\ threads'[t].out # None
            /\ threads'[t].out[1].tag # "ok"
            /\ dicts' = dicts
C33_BackrefImmutable == [][C33_MutationStep]_vars

\* an assignment has failed on an element that holds relation data
C33_Witness ==
    \E t \in Threads :
        /\ threads[t].pc = "idle"
        /\ threads[t].fn = "set"
        /\ threads[t].out = Some(Err("TypeError"))
        /\ DOMAIN dicts[threads[t].elm] # {}

----------------------------------------------------------------------------
(* __set_name__ of Containment and Association (model.rs).                 *)
(*                                                                         *)
(* `relations` holds the Containment and Association objects; a relation   *)
(* is named by its position.  `types` is the __mro__ of the owning type,   *)
(* the owner first: each class is its __dict__, a map from attribute names *)
(* to what the class body assigned.                                        *)

MaxAncestors == 2
Unconfigured == <<"A Relation that was not properly configured.">>
attr == <<"x">>

\* Containment::__new__ and Association::__new__
Containment_new(name, mapkey, mapvalue, single_attr, fixed_length) ==
    [cls |-> "Containment",
     name |-> IF name = None THEN None ELSE Some(Key("Child", name[1])),
     mapkey |-> mapkey, mapvalue |-> mapvalue, single_attr |-> single_attr,
     fixed_length |-> fixed_length,
     __objclass__ |-> None, __name__ |-> <<"<unknown>">>,
     __doc__ |-> Unconfigured]
Association_new(name, mapkey, mapvalue, fixed_length) ==
    [cls |-> "Association",
     name |-> IF name = None THEN None ELSE Some(Key("Attribute", name[1])),
     mapkey |-> mapkey, mapvalue |-> mapvalue, single_attr |-> None,
     fixed_length |-> fixed_length,
     __objclass__ |-> None, __name__ |-> <<"<unknown>">>,
     __doc__ |-> Unconfigured]

\* the relations under definition
NewRelations ==
    {Containment_new(n, k, v, s, f) :
        n \in {None, Some(<<"n">>)}, k \in {None, Some(<<"m">>)},
        v \in {None, Some(<<"w">>)}, s \in {None}, f \in {0, 3}}
    \cup {Association_new(n, k, v, f) :
        n \in {None, Some(<<"n">>)}, k \in {None, Some(<<"m">>)},
        v \in {None, Some(<<"w">>)}, f \in {0, 3}}

\* a relation of an ancestor, after its own __set_name__
Defined(rel, doc) ==
    [rel EXCEPT !.__objclass__ = Some("ancestor"), !.__name__ = attr,
                !.__doc__ = doc]
AncestorRelations ==
    << Defined(Containment_new(Some(<<"c">>), None, None, None, 0), <<"c">>),
       Defined(Containment_new(Some(<<"d">>), Some(<<"k">>), Some(<<"v">>),
                               Some(<<"s">>), 2), <<"d">>),
       Defined(Association_new(Some(<<"a">>), Some(<<"k">>), Some(<<"v">>), 1),
               <<"a">>) >>

\* what a class body may hold under a name: the Python object of a relation
\* (its __impl is the relation), a Single around such an object, or an
\* object that has no __impl
Wrapper(id) == [kind |-> "relation", impl |-> id]
SingleOf(e) == [kind |-> "Single", wrapped |-> e]
Other == [kind |-> "other"]
Entries ==
    {Other, SingleOf(Other), SingleOf(Wrapper(3))}
        \cup {Wrapper(id) : id \in 2 .. 1 + Len(AncestorRelations)}
ClassDicts == {[n \in {} |-> Other]} \cup {[n \in {attr} |-> e] : e \in Entries}
RECURSIVE Ancestors(_)
Ancestors(n) ==
    IF n = 0 THEN {<<>>}
    ELSE LET fewer == Ancestors(n - 1)
         IN  fewer \cup {Append(a, d) : a \in fewer, d \in ClassDicts}

\* the loop of find_overridden_relation over the classes that are left
RECURSIVE overridden_in(_, _, _, _)
overridden_in(rels, mro, name, R) ==
    IF mro = <<>> THEN None
    ELSE IF name \notin DOMAIN Head(mro)
    THEN overridden_in(rels, Tail(mro), name, R)
    ELSE LET entry == Head(mro)[name]
             rel == IF entry.kind = "Single" THEN entry.wrapped ELSE entry
         IN  IF rel.kind # "relation" THEN None
             ELSE IF rels[rel.impl].cls # R THEN None
             ELSE Some(rel.impl)

\* the same loop, passing over the classes whose attribute is no relation
\* of the type R
RECURSIVE overridden_in_any(_, _, _, _)
overridden_in_any(rels, mro, name, R) ==
    IF mro = <<>> THEN None
    ELSE IF name \notin DOMAIN Head(mro)
    THEN overridden_in_any(rels, Tail(mro), name, R)
    ELSE LET entry == Head(mro)[name]
             rel == IF entry.kind = "Single" THEN entry.wrapped ELSE entry
         IN  IF rel.kind # "relation" \/ rels[rel.impl].cls # R
             THEN overridden_in_any(rels, Tail(mro), name, R)
             ELSE Some(rel.impl)

\* find_overridden_relation without the first class left out
find_overridden_relation_any(rels, mro, name, R) ==
    overridden_in_any(rels, Tail(mro), name, R)

\* find_overridden_relation::<R>(owner, name)
find_overridden_relation(rels, mro, name, R) ==
    overridden_in(rels, Tail(mro), name, R)

\* gendocstring
gendocstring(name) == <<"The ", name, " of this type.">>

\* the body of `if slf.name.is_none() && let Some(overridden) = ...`
inherit(slf, overridden) ==
    [slf EXCEPT
        !.__doc__ = overridden.__doc__,
        !.name = overridden.name,
        !.fixed_length = IF @ = 0 THEN overridden.fixed_length ELSE @,
        !.mapkey = IF @ = None THEN overridden.mapkey ELSE @,
        !.mapvalue = IF slf.mapkey = None /\ @ = None
                     THEN overridden.mapvalue ELSE @,
        !.single_attr = IF slf.cls = "Containment" /\ @ = None
                        THEN overridden.single_attr ELSE @]

\* Containment::__set_name__ and Association::__set_name__: the outcome and
\* the relation after the call
set_name(rels, id, mro, name) ==
    LET slf == rels[id]
        found == IF slf.name = None
                 THEN find_overridden_relation(rels, mro, name, slf.cls)
                 ELSE None
        named == IF found # None THEN inherit(slf, rels[found[1]])
                 ELSE [slf EXCEPT !.__doc__ = gendocstring(name)]
    IN  IF named.name = None
        THEN [tag |-> "TypeError", rel |-> named]
        ELSE [tag |-> "ok",
              rel |-> [named EXCEPT !.__name__ = name,
                                    !.__objclass__ = Some("owner")]]

\* a definition touches nothing but the relation
OnlyRelations ==
    /\ UNCHANGED <<namespaces, calls>>
    /\ UNCHANGED <<document, pos, outcome, stack, id_index, corrupt>>
    /\ UNCHANGED <<entrypoint, resources, opened, buf>>
    /\ UNCHANGED <<dicts, threads, held, made>>
    /\ UNCHANGED <<string_cache, arcs, elems, inner, types>>

SetName(id, name, r) ==
    /\ res' = Result("__set_name__", id, Some(relations[id]), r.tag, None)
    /\ relations' = [relations EXCEPT ![id] = r.rel]
    /\ OnlyRelations

ContainmentSetName(id, name) ==
    /\ relations[id].cls = "Containment"
    /\ SetName(id, name, set_name(relations, id, types, name))

AssociationSetName(id, name) ==
    /\ relations[id].cls = "Association"
    /\ SetName(id, name, set_name(relations, id, types, name))

InitRel ==
    /\ namespaces = [i \in NsIds |-> None]
    /\ calls = <<>>
    /\ res = Result("init", 0, None, "ok", None)
    /\ document = <<>>
    /\ pos = 0
    /\ outcome = "running"
    /\ stack = <<>>
    /\ id_index = [k \in {} |-> None]
    /\ corrupt = FALSE
    /\ entrypoint = <<>>
    /\ resources = [k \in {} |-> <<>>]
    /\ opened = <<>>
    /\ buf = <<>>
    /\ dicts = [e \in Objects |-> [k \in {} |-> <<>>]]
    /\ threads = [t \in Threads |-> Idle]
    /\ held = [e \in Objects |-> 0]
    /\ made = 0
    /\ string_cache = [s \in {} |-> 0]
    /\ arcs = <<>>
    /\ elems = <<>>
    /\ inner = <<>>
    /\ \E slf \in NewRelations : relations = <<slf>> \o AncestorRelations
    /\ \E a \in Ancestors(MaxAncestors) :
           types = <<[n \in {attr} |-> Wrapper(1)]>> \o a

NextRel ==
    \/ ContainmentSetName(1, attr)
    \/ AssociationSetName(1, attr)

SpecRel == InitRel /\ [][NextRel]_vars

\* the ancestors (positions of types behind the owner) that hold a relation
\* of the type R under the name, and those that hold anything under it
IsRelation(entry, R) ==
    LET rel == IF entry.kind = "Single" THEN entry.wrapped ELSE entry
    IN  rel.kind = "relation" /\ relations[rel.impl].cls = R
RelationOf(entry) ==
    relations[(IF entry.kind = "Single" THEN entry.wrapped ELSE entry).impl]
Defining(name, R) ==
    {k \in 2 .. Len(types) :
        name \in DOMAIN types[k] /\ IsRelation(types[k][name], R)}
Holding(name) == {k \in 2 .. Len(types) : name \in DOMAIN types[k]}
Nearest(ks) == CHOOSE k \in ks : \A j \in ks : k <= j

\* the step is a call of __set_name__ on the relation 1
Defines == ContainmentSetName(1, attr) \/ AssociationSetName(1, attr)

\* C31 as stated: the definition succeeds exactly when the relation has an
\* explicit key or some ancestor defines a relation of the same name; then
\* the relation has a key, and without an explicit key it is the key of the
\* nearest such ancestor.
C31_AnyAncestorStep ==
    Defines =>
        LET slf == relations[1]
            such == Defining(attr, slf.cls)
        IN  /\ res'.tag = "ok" <=> (slf.name # None \/ such # {})
            /\ res'.tag # "ok" => res'.tag = "TypeError"
            /\ res'.tag = "ok" =>
                   /\ relations'[1].name # None
                   /\ slf.name = None =>
                          relations'[1].name =
                              RelationOf(types[Nearest(such)][attr]).name
C31_AnyAncestor == [][C31_AnyAncestorStep]_vars

\* C31, amended: the definition succeeds exactly when the relation has an
\* explicit key or the nearest ancestor that holds anything under the name
\* holds a relation of the same type there; then the relation has a key,
\* and without an explicit key it is the key of that ancestor's relation.
C31_NearestHolderStep ==
    Defines =>
        LET slf == relations[1]
            holding == Holding(attr)
            inherits == /\ holding # {}
                        /\ IsRelation(types[Nearest(holding)][attr], slf.cls)
        IN  /\ res'.tag = "ok" <=> (slf.name # None \/ inherits)
            /\ res'.tag # "ok" => res'.tag = "TypeError"
            /\ res'.tag = "ok" =>
                   /\ relations'[1].name # None
                   /\ slf.name = None =>
                          relations'[1].name =
                              RelationOf(types[Nearest(holding)][attr]).name
                   /\ slf.name # None => relations'[1].name = slf.name
C31_NearestHolder == [][C31_NearestHolderStep]_vars

\* a relation without a key has taken the key of the second ancestor, the
\* first one holding nothing under the name
C31_Witness ==
    /\ res.op = "__set_name__"
    /\ res.tag = "ok"
    /\ res.arg[1].name = None
    /\ Len(types) = 3
    /\ attr \notin DOMAIN types[2]
    /\ attr \in DOMAIN types[3]
    /\ relations[1].name = RelationOf(types[3][attr]).name

\* C32: a relation without an explicit key that inherits from an ancestor
\* takes each of fixed length, map key and map value from the ancestor when
\* it did not set it itself, and keeps each one it did set.
C32_InheritsEachStep ==
    Defines /\ relations[1].name = None /\ res'.tag = "ok" =>
        LET slf == relations[1]
            overridden == RelationOf(types[Nearest(Holding(attr))][attr])
        IN  /\ relations'[1].fixed_length =
                   IF slf.fixed_length = 0 THEN overridden.fixed_length
                   ELSE slf.fixed_length
            /\ relations'[1].mapkey =
                   IF slf.mapkey = None THEN overridden.mapkey ELSE slf.mapkey
            /\ relations'[1].mapvalue =
                   IF slf.mapvalue = None THEN overridden.mapvalue
                   ELSE slf.mapvalue
C32_InheritsEach == [][C32_InheritsEachStep]_vars
====
